---- MODULE Spec2Model ----
(***************************************************************************)
(* automagic: the scheduling and session-lifecycle subsystem.              *)
(*                                                                         *)
(* The daemon (pkg/daemon), the process manager (pkg/claude), the two      *)
(* session stores (pkg/session) and the comment filter of the GitLab       *)
(* client (pkg/gitlab), as one state machine.  Strings are TLA+ strings    *)
(* and the string functions of the code (strings.ToLower, Contains, the    *)
(* UUID regular expression, Sprintf) are computed character by character.  *)
(* Time is an integer count of clock ticks, TicksPerSecond of them to a    *)
(* second, so that a timestamp can carry a fraction of a second.           *)
(***************************************************************************)
EXTENDS Naturals, Integers, Sequences, FiniteSets, TLC

VARIABLES
    cfg,             \* the daemon's configuration and construction choices
    now,             \* the wall clock, in ticks
    labels,          \* tracker: issue -> set of labels
    discussions,     \* tracker: issue -> sequence of threads, each a sequence of notes
    pc,              \* the scheduling loop's position (Daemon.Run / RunWithoutMemory)
    cancelled,       \* the root context has been cancelled
    scanList,        \* the issue snapshots still to visit in the running scan
    processedIssues, \* the "already handled" set
    handled,         \* history: the issues a Run or a resume was started for in the
                     \* polling cycle under way
    lastCommentTime, \* Daemon.lastCommentTime: issue -> CreatedAt of the last note reacted to
    procs,           \* the Process objects ever created: pid -> record
    processes,       \* ProcessManager.processes: process ID string -> pid
    tasks,           \* the completion goroutines: pid -> record
    sessions,        \* the session store's table: issue -> CompletedSession
    storeLock,       \* the JSON store's RWMutex: "free" or "writer"
    resumeCmds,      \* the resume subprocesses ever started: rid -> record
    resumeProcesses, \* Daemon.resumeProcesses: issue -> rid
    signals,         \* the subprocesses the loop has signalled: TERM and KILL
    probe,           \* the input and the result of the function under test
    budget           \* the events the environment may still cause

vars == <<cfg, now, labels, discussions, pc, cancelled, scanList, processedIssues, handled,
          lastCommentTime, procs, processes, tasks, sessions, storeLock,
          resumeCmds, resumeProcesses, signals, probe, budget>>

trackerVars == <<labels, discussions>>
loopVars    == <<pc, cancelled, scanList, processedIssues, handled>>
runVars     == <<procs, processes, tasks>>
storeVars   == <<sessions, storeLock>>
resumeVars  == <<resumeCmds, resumeProcesses>>

-----------------------------------------------------------------------------
(* Bounds of the model *)

NumIssues      == 1   \* tickets of the project
MaxTime        == 5   \* the clock stops here
MaxRuns        == 2   \* Runs spawned in one behaviour
MaxResumes     == 2   \* resume subprocesses started in one behaviour
MaxEvents      == 2   \* events of the environment in one behaviour: a note or a
                      \* label of an external actor, a failing call, a signal
TicksPerSecond == 2   \* clock ticks in a second

Issues == 1..NumIssues
None   == "<none>"

-----------------------------------------------------------------------------
(* Strings *)

RECURSIVE Itoa(_)
Itoa(n) ==
    LET d == SubSeq("0123456789", (n % 10) + 1, (n % 10) + 1)
    IN  IF n < 10 THEN d ELSE Itoa(n \div 10) \o d

CharAt(s, i) == SubSeq(s, i, i)

Upper == "ABCDEFGHIJKLMNOPQRSTUVWXYZ"
Lower == "abcdefghijklmnopqrstuvwxyz"

LowerChar(c) ==
    IF \E k \in 1..26 : CharAt(Upper, k) = c
    THEN CharAt(Lower, CHOOSE k \in 1..26 : CharAt(Upper, k) = c)
    ELSE c

RECURSIVE ToLower(_)
ToLower(s) ==
    IF s = "" THEN "" ELSE LowerChar(CharAt(s, 1)) \o ToLower(SubSeq(s, 2, Len(s)))

Contains(s, sub) ==
    \E i \in 1..(Len(s) - Len(sub) + 1) : SubSeq(s, i, i + Len(sub) - 1) = sub

HexChars == {CharAt("0123456789abcdef", k) : k \in 1..16}

\* [0-9a-f]{8}-[0-9a-f]{4}-[0-9a-f]{4}-[0-9a-f]{4}-[0-9a-f]{12}, the whole of s
UUIDShape(s) ==
    /\ Len(s) = 36
    /\ \A k \in 1..36 :
          IF k \in {9, 14, 19, 24} THEN CharAt(s, k) = "-" ELSE CharAt(s, k) \in HexChars

isValidUUID_NoAnchor(sessionID) ==
    \E i \in 1..(Len(sessionID) - 35) : UUIDShape(SubSeq(sessionID, i, i + 35))

isValidUUID(sessionID) == UUIDShape(sessionID)

-----------------------------------------------------------------------------
(* Time *)

\* time.Time.Unix(): whole seconds
Unix(t) == t \div TicksPerSecond
\* time.Unix(sec, 0)
FromUnix(sec) == sec * TicksPerSecond
Seconds(n) == n * TicksPerSecond

-----------------------------------------------------------------------------
(* Configuration values *)

ClaudeLabel  == "claude"                 \* config.Daemon.ClaudeLabel
ProcessLabel == "picked_up_by_claude"    \* config.Daemon.ProcessLabel
ReviewLabel  == "waiting_human_review"   \* config.Daemon.ReviewLabel
ErrorLabel   == "error"
OtherLabel   == "bug"                    \* a label the workflow does not know

ClaudeCommand == "claude"                            \* config.Claude.Command
ClaudeFlags   == "--output-format stream-json"       \* config.Claude.Flags
ProjectPath   == "group/project"                     \* Daemon.selectedProject
RepoDir       == "/work/project"                     \* the directory ensureRepositoryExists returns

\* the account the daemon's token belongs to: its display name and its handle
\* (config.GitLab.Username)
ServiceAccount == [name |-> "Claude Bot", username |-> "claude-bot"]

Alice == [name |-> "Alice", username |-> "alice123"]

-----------------------------------------------------------------------------
(* Labels *)

Labels == {ClaudeLabel, ProcessLabel, ReviewLabel, ErrorLabel, OtherLabel}

\* the order in which the tracker lists a ticket's labels
LabelOrder == <<OtherLabel, ClaudeLabel, ErrorLabel, ProcessLabel, ReviewLabel>>

RECURSIVE SelectLabels(_, _)
SelectLabels(order, set) ==
    IF order = <<>> THEN <<>>
    ELSE (IF Head(order) \in set THEN <<Head(order)>> ELSE <<>>)
         \o SelectLabels(Tail(order), set)

\* Issue.Labels as the tracker returns it
LabelList(set) == SelectLabels(LabelOrder, set)

\* the tracker keeps a set: PUT ...?labels=a,b,c
LabelSet(list) == {list[k] : k \in 1..Len(list)}

RECURSIVE Without(_, _)
Without(list, drop) ==
    IF list = <<>> THEN <<>>
    ELSE (IF Head(list) \in drop THEN <<>> ELSE <<Head(list)>>) \o Without(Tail(list), drop)

ClaimLabels_Toggle(issueLabels) ==
    IF \E k \in 1..Len(issueLabels) : issueLabels[k] = ProcessLabel
    THEN Without(issueLabels, {ClaudeLabel, ReviewLabel, ProcessLabel})
    ELSE Append(Without(issueLabels, {ClaudeLabel, ReviewLabel}), ProcessLabel)

ClaimLabels_KeepTrigger(issueLabels) ==
    Append(Without(issueLabels, {ReviewLabel}), ProcessLabel)

\* processIssueWithLabelUpdate: the label list of the claim
ClaimLabels(issueLabels) ==
    Append(Without(issueLabels, {ClaudeLabel, ReviewLabel}), ProcessLabel)

SuccessLabels_KeepProgress(issueLabels) == Append(issueLabels, ReviewLabel)

\* a failure handler that hands the ticket back to the new-work scan
FailureLabels_Retry(issueLabels) == Append(Without(issueLabels, {ProcessLabel}), ClaudeLabel)

\* onCompletion: the label list written on success and on failure
SuccessLabels(issueLabels) == Append(Without(issueLabels, {ProcessLabel}), ReviewLabel)
FailureLabels(issueLabels) == Append(Without(issueLabels, {ProcessLabel}), ErrorLabel)

-----------------------------------------------------------------------------
(* Notes *)

\* a note of the tracker; t is the instant its created_at (RFC3339, which
\* time.Parse reads with its fraction of a second) denotes
Note(author, system, t) == [author |-> author, system |-> system, t |-> t]

RECURSIVE Flatten(_)
Flatten(threads) ==
    IF threads = <<>> THEN <<>> ELSE Head(threads) \o Flatten(Tail(threads))

RECURSIVE NotesAfter(_, _)
NotesAfter(notes, afterTime) ==
    IF notes = <<>> THEN <<>>
    ELSE (IF ~Head(notes).system /\ Head(notes).t > afterTime THEN <<Head(notes)>> ELSE <<>>)
         \o NotesAfter(Tail(notes), afterTime)

RECURSIVE NotesAfter_Inclusive(_, _)
NotesAfter_Inclusive(notes, afterTime) ==
    IF notes = <<>> THEN <<>>
    ELSE (IF ~Head(notes).system /\ Head(notes).t >= afterTime THEN <<Head(notes)>> ELSE <<>>)
         \o NotesAfter_Inclusive(Tail(notes), afterTime)

GetIssueCommentsAfter_Inclusive(threads, afterTime) ==
    NotesAfter_Inclusive(Flatten(threads), afterTime)

\* Client.GetIssueCommentsAfterWithContext: thread by thread, note by note
GetIssueCommentsAfter(threads, afterTime) == NotesAfter(Flatten(threads), afterTime)

RECURSIVE NonSystem(_)
NonSystem(notes) ==
    IF notes = <<>> THEN <<>>
    ELSE (IF ~Head(notes).system THEN <<Head(notes)>> ELSE <<>>) \o NonSystem(Tail(notes))

\* the non-system notes of all threads, in the order the tracker returns them
AllNotes(threads) == NonSystem(Flatten(threads))

\* sort.Slice by creation time is not stable: every ordering of the notes that is
\* non-decreasing in time is a possible result
IsSortedByTime(list) == \A k \in 1..(Len(list) - 1) : list[k].t <= list[k + 1].t

\* the orders in which n elements can be visited, each once
Orders(n) == {f \in [1..n -> 1..n] : \A x, y \in 1..n : x # y => f[x] # f[y]}

SortedNotes(list) ==
    { s \in {[k \in 1..Len(list) |-> list[f[k]]] : f \in Orders(Len(list))} :
         IsSortedByTime(s) }

IsBotComment_NameOnly(author, configUsername) ==
    LET authorName == ToLower(author.name)
    IN  Contains(authorName, "claude") \/ Contains(authorName, "bot")

\* checkForHumanReviewIssuesWithContext: the bot detection on the last comment
IsBotComment(author, configUsername) ==
    LET authorName     == ToLower(author.name)
        authorUsername == ToLower(author.username)
        botUsername    == ToLower(configUsername)
    IN  \/ Contains(authorName, "claude") \/ Contains(authorName, "bot")
        \/ Contains(authorUsername, "bot")
        \/ Contains(botUsername, "bot") /\ author.username = configUsername

IsNewerComment_NotStrict(hasProcessedBefore, lastProcessedTime, createdAt) ==
    ~hasProcessedBefore \/ createdAt >= lastProcessedTime

\* checkForHumanReviewIssuesWithContext: is the last comment newer than the one
\* already reacted to
IsNewerComment(hasProcessedBefore, lastProcessedTime, createdAt) ==
    ~hasProcessedBefore \/ createdAt > lastProcessedTime

-----------------------------------------------------------------------------
(* The session stores *)

Put(f, k, v) == [x \in (DOMAIN f) \cup {k} |-> IF x = k THEN v ELSE f[x]]
Drop(f, k)   == [x \in (DOMAIN f) \ {k} |-> f[x]]
Empty        == [x \in {} |-> None]

\* the environment variables a snapshot may hold, in the order json.Marshal
\* writes the keys of a map
EnvKeys == <<"HOME", "PATH">>

RECURSIVE MarshalKeys(_, _)
MarshalKeys(keys, m) ==
    IF keys = <<>> THEN <<>>
    ELSE (IF Head(keys) \in DOMAIN m THEN <<<<Head(keys), m[Head(keys)]>>>> ELSE <<>>)
         \o MarshalKeys(Tail(keys), m)

\* a Go map[string]string: nil, or the map
NilMap    == [nil |-> TRUE, m |-> [k \in {} |-> ""]]
GoMap(m)  == [nil |-> FALSE, m |-> m]

\* a TEXT column or JSON text: the empty string, or the members of a JSON object
EmptyText == [empty |-> TRUE, object |-> <<>>]

\* a NULL INTEGER column, and a nil *time.Time
NoTime == 0 - 1

\* json.Marshal of a map[string]string: the members of the JSON object, in order
Marshal(m) == [empty |-> FALSE, object |-> MarshalKeys(EnvKeys, m)]

\* json.Unmarshal into a map[string]string
Unmarshal(text) ==
    [k \in {text.object[i][1] : i \in 1..Len(text.object)} |->
        LET i == CHOOSE j \in 1..Len(text.object) :
                    /\ text.object[j][1] = k
                    /\ \A l \in (j + 1)..Len(text.object) : text.object[l][1] # k
        IN  text.object[i][2]]

\* SQLiteSessionStore.AddCompletedSession: INSERT OR REPLACE of the row
SQLiteAdd(tbl, issueIID, sessionID, projectPath, completionTime, workingDir, claudeCommand, claudeFlags, envVars) ==
    Put(tbl, issueIID,
        [ session_id        |-> sessionID,
          project_path      |-> projectPath,
          completion_time   |-> Unix(completionTime),
          last_comment_time |-> NoTime,
          working_dir       |-> workingDir,
          claude_command    |-> claudeCommand,
          claude_flags      |-> claudeFlags,
          env_vars          |-> IF ~envVars.nil THEN Marshal(envVars.m) ELSE EmptyText ])

\* SQLiteSessionStore.UpdateLastCommentTime: UPDATE ... WHERE issue_iid = ?
SQLiteUpdate(tbl, issueIID, commentTime) ==
    IF issueIID \in DOMAIN tbl
    THEN [tbl EXCEPT ![issueIID].last_comment_time = Unix(commentTime)]
    ELSE tbl

\* SQLiteSessionStore.GetCompletedSession: the row as a CompletedSession
SQLiteGet(tbl, issueIID) ==
    LET row == tbl[issueIID]
    IN       [ IssueIID        |-> issueIID,
               SessionID       |-> row.session_id,
               ProjectPath     |-> row.project_path,
               CompletionTime  |-> FromUnix(row.completion_time),
               LastCommentTime |-> IF row.last_comment_time # NoTime
                                   THEN FromUnix(row.last_comment_time) ELSE NoTime,
               WorkingDir      |-> row.working_dir,
               ClaudeCommand   |-> row.claude_command,
               ClaudeFlags     |-> row.claude_flags,
               EnvVars         |-> IF ~row.env_vars.empty
                                   THEN GoMap(Unmarshal(row.env_vars)) ELSE NilMap ]

\* SessionStore.AddCompletedSession, the assignment to the map
JSONAdd(tbl, issueIID, sessionID, projectPath, completionTime, workingDir, claudeCommand, claudeFlags, envVars) ==
    Put(tbl, issueIID,
        [ IssueIID        |-> issueIID,
          SessionID       |-> sessionID,
          ProjectPath     |-> projectPath,
          CompletionTime  |-> completionTime,
          LastCommentTime |-> NoTime,
          WorkingDir      |-> workingDir,
          ClaudeCommand   |-> claudeCommand,
          ClaudeFlags     |-> claudeFlags,
          EnvVars         |-> envVars ])

\* SessionStore.UpdateLastCommentTime, the assignment to the record
JSONUpdate(tbl, issueIID, commentTime) ==
    [tbl EXCEPT ![issueIID].LastCommentTime = commentTime]

\* SessionStore.GetCompletedSession: a copy of the record
JSONGet(tbl, issueIID) == tbl[issueIID]

\* Store.GetCompletedSession on the store the daemon was built with, for a ticket
\* that has a record
GetCompletedSession(kind, tbl, issueIID) ==
    IF kind = "sqlite" THEN SQLiteGet(tbl, issueIID) ELSE JSONGet(tbl, issueIID)

-----------------------------------------------------------------------------
(* The process manager: session identifier capture *)

Whitespace == {" ", "\t"}
Separators == Whitespace \cup {":"}
HexCharsAnyCase == HexChars \cup {CharAt("ABCDEF", k) : k \in 1..6}

\* the UUID pattern under the (?i) flag of the labelled patterns
UUIDShapeAnyCase(s) ==
    /\ Len(s) = 36
    /\ \A k \in 1..36 :
          IF k \in {9, 14, 19, 24} THEN CharAt(s, k) = "-"
          ELSE CharAt(s, k) \in HexCharsAnyCase

\* the first position at or after i whose character is not in class
RECURSIVE SkipClass(_, _, _)
SkipClass(text, i, class) ==
    IF i <= Len(text) /\ CharAt(text, i) \in class
    THEN SkipClass(text, i + 1, class) ELSE i

\* word, then one or more separator characters, then a UUID: where the UUID starts
\* when the text matches at position p, and 0 otherwise
LabelledAt(text, p, word) ==
    LET a == p + Len(word)
        d == SkipClass(text, a, Separators)
    IN  IF /\ a - 1 <= Len(text)
           /\ ToLower(SubSeq(text, p, a - 1)) = word
           /\ d > a
           /\ d + 35 <= Len(text)
           /\ UUIDShapeAnyCase(SubSeq(text, d, d + 35))
        THEN d ELSE 0

\* (?i)session\s+id[:\s]+(UUID)
SessionIdAt(text, p) ==
    LET a == p + 7
        b == SkipClass(text, a, Whitespace)
    IN  IF /\ a - 1 <= Len(text)
           /\ ToLower(SubSeq(text, p, a - 1)) = "session"
           /\ b > a
        THEN LabelledAt(text, b, "id") ELSE 0

SessionAt(text, p) == LabelledAt(text, p, "session")
IdAt(text, p)      == LabelledAt(text, p, "id")
BareAt(text, p) ==
    IF p + 35 <= Len(text) /\ UUIDShape(SubSeq(text, p, p + 35)) THEN p ELSE 0

\* where the UUID of a match of the pattern at position p starts, 0 without one
MatchAt(pattern, text, p) ==
    CASE pattern = "session id" -> SessionIdAt(text, p)
      [] pattern = "session"    -> SessionAt(text, p)
      [] pattern = "id"         -> IdAt(text, p)
      [] OTHER                  -> BareAt(text, p)

\* regexp.FindStringSubmatch: the capture of the leftmost match, "" without a match
Leftmost(text, pattern) ==
    IF \E p \in 1..Len(text) : MatchAt(pattern, text, p) # 0
    THEN LET p == CHOOSE q \in 1..Len(text) :
                     /\ MatchAt(pattern, text, q) # 0
                     /\ \A r \in 1..(q - 1) : MatchAt(pattern, text, r) = 0
         IN  SubSeq(text, MatchAt(pattern, text, p), MatchAt(pattern, text, p) + 35)
    ELSE ""

\* extractSessionIDFromText
extractSessionIDFromText(text) ==
    IF Leftmost(text, "session id") # "" THEN Leftmost(text, "session id")
    ELSE IF Leftmost(text, "session") # "" THEN Leftmost(text, "session")
    ELSE IF Leftmost(text, "id") # "" THEN Leftmost(text, "id")
    ELSE IF Contains(ToLower(text), "session") THEN Leftmost(text, "uuid")
    ELSE ""

\* a line of the agent's standard output: whether it is a JSON object, the string
\* of its session_id member ("" when it has none), which of the members content,
\* delta and result is the first it has as a string, and that string (the line
\* itself when it is no JSON object)
Line(json, session_id, field, text) ==
    [json |-> json, session_id |-> session_id, field |-> field, text |-> text]

UUID1 == "a1b2c3d4-e5f6-7890-abcd-ef1234567890"
UUID2 == "0f0e0d0c-1111-2222-3333-444455556666"

OutputLines ==
    { Line(TRUE,  UUID1, "none", ""),
      Line(FALSE, "", "none", "session: " \o UUID1) }

\* lines of output a Run may read one after the other: with the one identifier
\* and with the other, as a JSON member, in the text of a JSON member and in
\* plain text, without an identifier, with a session_id member that is no UUID,
\* and with a UUID in capitals after "Session ID:"
ScannedLines ==
    OutputLines \cup
    { Line(TRUE,  UUID2, "none", ""),
      Line(FALSE, "", "none", "session: " \o UUID2),
      Line(TRUE,  "", "result", "session: " \o UUID2),
      Line(TRUE,  UUID1, "content", "session: " \o UUID2),
      Line(TRUE,  "", "delta", "ok"),
      Line(FALSE, "", "none", "ok"),
      Line(TRUE,  "sess-42", "none", ""),
      Line(FALSE, "", "none", "Session ID: A1B2C3D4-E5F6-7890-ABCD-EF1234567890") }

\* extractSessionIDFromText on the text of each line
Extracted == [line \in ScannedLines |-> extractSessionIDFromText(line.text)]

\* RunProcess, the body of the scanner loop, without the tests for an
\* identifier already captured
CaptureSessionID_LastWins(current, line) ==
    IF ~line.json
    THEN IF Extracted[line] # "" THEN Extracted[line] ELSE current
    ELSE LET afterJSON == IF line.session_id # "" THEN line.session_id ELSE current
         IN  IF line.field \in {"content", "delta", "result"} /\ Extracted[line] # ""
             THEN Extracted[line] ELSE afterJSON

\* RunProcess, the body of the scanner loop: the identifier after the line
CaptureSessionID(current, line) ==
    IF ~line.json
    THEN IF current = "" /\ Extracted[line] # "" THEN Extracted[line] ELSE current
    ELSE LET afterJSON == IF current = "" /\ line.session_id # ""
                          THEN line.session_id ELSE current
         IN  IF line.field \in {"content", "delta", "result"}
                /\ afterJSON = "" /\ Extracted[line] # ""
             THEN Extracted[line] ELSE afterJSON

\* fmt.Sprintf("issue-%d-%d", issueNumber, time.Now().Unix())
ProcessID(issueNumber, t) == "issue-" \o Itoa(issueNumber) \o "-" \o Itoa(Unix(t))

\* os.Environ(), the environment the daemon runs in
OsEnviron == <<"HOME=/home/dev", "PATH=/usr/bin">>

\* strings.SplitN(env, "=", 2) for an entry that contains "="
EnvKey(env)   == SubSeq(env, 1, SkipClass(env, 1, {CharAt(env, k) : k \in 1..Len(env)} \ {"="}) - 1)
EnvValue(env) == SubSeq(env, Len(EnvKey(env)) + 2, Len(env))

\* onCompletion: the environment map built from Cmd.Env
EnvMap(environ) ==
    LET with == {k \in 1..Len(environ) : Contains(environ[k], "=")}
    IN  [key \in {EnvKey(environ[k]) : k \in with} |->
            EnvValue(environ[CHOOSE k \in with :
                        /\ EnvKey(environ[k]) = key
                        /\ \A l \in with : l > k => EnvKey(environ[l]) # key])]

-----------------------------------------------------------------------------
(* The initial state *)

OsEnvMap == EnvMap(OsEnviron)

Configs ==
    [ memory  : BOOLEAN,
      runMode : {"live", "dry", "semi"},
      svc     : {ServiceAccount},
      store   : {"sqlite", "json"} ]

NoProbe == [op |-> "none"]

\* the daemon just constructed, and the tracker before the first tick
Quiet ==
    /\ now = 0
    /\ discussions = [i \in Issues |-> <<>>]
    /\ pc = "idle"
    /\ cancelled = FALSE
    /\ scanList = <<>>
    /\ processedIssues = {}
    /\ handled = {}
    /\ lastCommentTime = Empty
    /\ procs = <<>>
    /\ processes = Empty
    /\ tasks = Empty
    /\ storeLock = "free"
    /\ resumeCmds = <<>>
    /\ resumeProcesses = Empty
    /\ signals = [TERM |-> {}, KILL |-> {}]

\* a ticket somebody has just labelled for the agent, and an empty store
Fresh ==
    /\ labels = [i \in Issues |-> {ClaudeLabel, OtherLabel}]
    /\ sessions = Empty

\* the record an earlier execution of the daemon, configured otherwise, has left
\* in the store for a ticket
StoreWith(kind, issueIID) ==
    IF kind = "sqlite"
    THEN SQLiteAdd(Empty, issueIID, UUID2, ProjectPath, 0, "/srv/checkout",
                   "/opt/claude/bin/claude", "--verbose", GoMap([k \in {"HOME"} |-> "/home/ci"]))
    ELSE JSONAdd(Empty, issueIID, UUID2, ProjectPath, 0, "/srv/checkout",
                 "/opt/claude/bin/claude", "--verbose", GoMap([k \in {"HOME"} |-> "/home/ci"]))

\* a daemon in memory mode started again over the store of an earlier execution:
\* the first ticket awaits review and has its record
Restarted ==
    /\ cfg.memory
    /\ labels = [i \in Issues |-> IF i = 1 THEN {ReviewLabel, OtherLabel}
                                  ELSE {ClaudeLabel, OtherLabel}]
    /\ sessions = StoreWith(cfg.store, 1)

Init ==
    /\ cfg \in Configs
    /\ Quiet
    /\ Fresh \/ Restarted
    /\ probe = NoProbe
    /\ budget = MaxEvents

-----------------------------------------------------------------------------
(* The tracker, as the daemon's client sees it *)

Snapshot(i) ==
    [iid |-> i, labels |-> LabelList(labels[i]), fetched |-> FALSE, comments |-> <<>>]

RECURSIVE IssuesFrom(_, _)
IssuesFrom(i, label) ==
    IF i > NumIssues THEN <<>>
    ELSE (IF label \in labels[i] THEN <<Snapshot(i)>> ELSE <<>>) \o IssuesFrom(i + 1, label)

\* Client.GetProjectIssues(project, {label}, "opened")
GetProjectIssues(label) == IssuesFrom(1, label)

NoteCount(i) == Len(Flatten(discussions[i]))

-----------------------------------------------------------------------------
(* The environment *)

\* the environment causes n events: n of the calls of a step fail, an external
\* actor does something
Pay(n) == budget >= n /\ budget' = budget - n

Failed(ok) == IF ok THEN 0 ELSE 1

\* the daemon's goroutines and its environment take steps while the scheduling
\* loop runs; a loop that waits in its select with the context cancelled returns
\* before anything else happens, and a program that a panic has ended does nothing
Running == pc \notin {"returned", "crashed"} /\ ~(pc = "idle" /\ cancelled)

\* the clock advances
Advance ==
    /\ Running
    /\ now < MaxTime
    /\ now' = now + 1
    /\ UNCHANGED <<cfg, signals, trackerVars, loopVars, lastCommentTime, runVars, storeVars,
                   resumeVars, probe, budget>>

\* an external actor applies the trigger label
ExtAddTrigger(i) ==
    /\ Running
    /\ ClaudeLabel \notin labels[i]
    /\ labels' = [labels EXCEPT ![i] = @ \cup {ClaudeLabel}]
    /\ Pay(1)
    /\ UNCHANGED <<cfg, signals, now, discussions, loopVars, lastCommentTime, runVars, storeVars,
                   resumeVars, probe>>

\* the kinds of note an external actor leaves: a human's comment, a comment
\* written with the service account, a system note about a human's action
ExternalNotes(t) ==
    { Note(Alice, FALSE, t), Note(cfg.svc, FALSE, t), Note(Alice, TRUE, t) }

\* somebody writes a note on a ticket that awaits review: in a new thread
\* (thread = 0) or as a reply in a thread
ExtAddNote(i, note, thread) ==
    /\ Running
    /\ ReviewLabel \in labels[i]
    /\ Pay(1)
    /\ thread \in 0..Len(discussions[i])
    /\ discussions' =
          [discussions EXCEPT ![i] =
              IF thread = 0 THEN Append(@, <<note>>)
              ELSE [@ EXCEPT ![thread] = Append(@, note)]]
    /\ UNCHANGED <<cfg, signals, now, labels, loopVars, lastCommentTime, runVars, storeVars,
                   resumeVars, probe>>

\* SIGINT or SIGTERM: the signal goroutine cancels the root context
Interrupt ==
    /\ pc \notin {"returned", "crashed"}
    /\ ~cancelled
    /\ cancelled' = TRUE
    /\ Pay(1)
    /\ UNCHANGED <<cfg, signals, now, trackerVars, pc, scanList, processedIssues, handled,
                   lastCommentTime, runVars, storeVars, resumeVars, probe>>

-----------------------------------------------------------------------------
(* The scheduling loop: Daemon.Run (memory mode) and Daemon.RunWithoutMemory *)

\* a Run or a resume subprocess of issue i is started in this step
Started(i) ==
    \/ Len(procs') > Len(procs) /\ procs'[Len(procs')].IssueNum = i
    \/ Len(resumeCmds') > Len(resumeCmds) /\ resumeCmds'[Len(resumeCmds')].issue = i

\* the history of the polling cycle: what this step starts is added, and the
\* cycle's end forgets it
Remember ==
    handled' = IF pc' = "idle" THEN {} ELSE handled \cup {i \in Issues : Started(i)}

\* the ticker fires. With the context already cancelled the loop returns at once;
\* RunWithoutMemory starts every cycle with a fresh processedIssues map, Run keeps
\* the one it made before the loop
Tick ==
    /\ pc = "idle"
    /\ IF cancelled
       THEN pc' = "returned" /\ UNCHANGED processedIssues
       ELSE /\ pc' = "newFetch"
            /\ processedIssues' = IF cfg.memory THEN processedIssues ELSE {}
    /\ UNCHANGED <<cfg, signals, now, trackerVars, cancelled, scanList, handled, lastCommentTime,
                   runVars, storeVars, resumeVars, probe, budget>>

\* ProcessManager.GetRunningProcesses: the Runs of the table whose status is running
GetRunningProcesses ==
    {k \in DOMAIN procs :
        /\ procs[k].ID \in DOMAIN processes /\ processes[procs[k].ID] = k
        /\ procs[k].Status = "running"}

\* the subprocesses the shutdown branch signals: the running Runs and, in Run, the
\* resume subprocesses of resumeProcesses
ShutdownTargets ==
    {<<"run", k>> : k \in GetRunningProcesses}
       \cup (IF cfg.memory
             THEN {<<"resume", resumeProcesses[i]>> : i \in DOMAIN resumeProcesses}
             ELSE {})

\* the loop's select takes the ctx.Done() case: SIGTERM to the targets, three
\* seconds of sleep, Kill to the same targets, and the loop returns
Shutdown ==
    /\ pc = "idle"
    /\ cancelled
    /\ pc' = "returned"
    /\ signals' = [TERM |-> ShutdownTargets, KILL |-> ShutdownTargets]
    /\ now' = IF now + Seconds(3) > MaxTime THEN MaxTime ELSE now + Seconds(3)
    /\ UNCHANGED <<cfg, trackerVars, cancelled, scanList, processedIssues, handled,
                   lastCommentTime, runVars, storeVars, resumeVars, probe, budget>>

\* checkForNewClaudeIssuesWithContext whose error makes Run return
NewFetch_ReturnOnError ==
    /\ pc = "newFetch"
    /\ \/ /\ cancelled
          /\ pc' = "idle" /\ scanList' = <<>>
          /\ UNCHANGED budget
       \/ /\ ~cancelled
          /\ \E ok \in BOOLEAN :
                /\ Pay(Failed(ok))
                /\ IF ok THEN pc' = "newScan" /\ scanList' = GetProjectIssues(ClaudeLabel)
                         ELSE pc' = "returned" /\ scanList' = <<>>
    /\ UNCHANGED <<cfg, signals, now, trackerVars, cancelled, processedIssues, lastCommentTime,
                   runVars, storeVars, resumeVars, probe>>
    /\ Remember

\* checkForNewClaudeIssuesWithContext, up to the list of issues
NewFetch ==
    /\ pc = "newFetch"
    /\ \/ /\ cancelled
          /\ pc' = "idle" /\ scanList' = <<>>
          /\ UNCHANGED budget
       \/ /\ ~cancelled
          /\ \E ok \in BOOLEAN :
                /\ Pay(Failed(ok))
                /\ IF ok THEN pc' = "newScan" /\ scanList' = GetProjectIssues(ClaudeLabel)
                         ELSE pc' = "reviewFetch" /\ scanList' = <<>>
    /\ UNCHANGED <<cfg, signals, now, trackerVars, cancelled, processedIssues, lastCommentTime,
                   runVars, storeVars, resumeVars, probe>>
    /\ Remember

\* CreateProcessWithCallbackAndGitlabDryRun: the Process it returns
NewProcess(issueNumber, processID) ==
    [ ID              |-> processID,
      ClaudeSessionID |-> "",
      IssueNum        |-> issueNumber,
      Status          |-> "starting",
      WorkingDir      |-> RepoDir,
      Env             |-> OsEnviron,
      gpc             |-> "start" ]

\* processIssueWithLabelUpdate going on to processIssueAsync when the label update
\* has failed
ProcessIssueWithLabelUpdate_IgnoreUpdateError(issue, spent) ==
    IF cfg.runMode # "live"
    THEN Pay(spent) /\ UNCHANGED <<labels, procs, processes>>
    ELSE \E updated \in BOOLEAN :
            /\ IF updated
               THEN /\ Pay(spent)
                    /\ labels' = [labels EXCEPT
                                     ![issue.iid] = LabelSet(ClaimLabels(issue.labels))]
               ELSE Pay(spent + 1) /\ UNCHANGED labels
            /\ Len(procs) < MaxRuns
            /\ procs' = Append(procs, NewProcess(issue.iid, ProcessID(issue.iid, now)))
            /\ processes' = Put(processes, ProcessID(issue.iid, now), Len(procs) + 1)

\* processIssueWithLabelUpdate and processIssueAsync for one issue snapshot: the
\* label update, then the Process, AddProcess and RunProcessAsync. spent is the
\* number of calls that failed in the step before this
ProcessIssueWithLabelUpdate(issue, spent) ==
    IF cfg.runMode # "live"
    THEN Pay(spent) /\ UNCHANGED <<labels, procs, processes>>
    ELSE \E updated \in BOOLEAN :
            IF ~updated
            THEN Pay(spent + 1) /\ UNCHANGED <<labels, procs, processes>>
            ELSE /\ labels' = [labels EXCEPT ![issue.iid] = LabelSet(ClaimLabels(issue.labels))]
                 /\ \E created \in BOOLEAN :
                       IF ~created
                       THEN Pay(spent + 1) /\ UNCHANGED <<procs, processes>>
                       ELSE /\ Pay(spent)
                            /\ Len(procs) < MaxRuns
                            /\ procs' = Append(procs,
                                   NewProcess(issue.iid, ProcessID(issue.iid, now)))
                            /\ processes' = Put(processes, ProcessID(issue.iid, now),
                                                Len(procs) + 1)

\* checkForNewClaudeIssuesWithContext, one turn of the loop over the issues
NewScanStep ==
    /\ pc = "newScan"
    /\ IF scanList = <<>>
       THEN /\ pc' = "reviewFetch"
            /\ UNCHANGED <<scanList, processedIssues, labels, procs, processes, budget>>
       ELSE IF cancelled
       THEN /\ pc' = "idle" /\ scanList' = <<>>
            /\ UNCHANGED <<processedIssues, labels, procs, processes, budget>>
       ELSE /\ pc' = pc /\ scanList' = Tail(scanList)
            /\ IF Head(scanList).iid \in processedIssues
               THEN UNCHANGED <<processedIssues, labels, procs, processes, budget>>
               ELSE /\ processedIssues' = processedIssues \cup {Head(scanList).iid}
                    /\ ProcessIssueWithLabelUpdate(Head(scanList), 0)
    /\ UNCHANGED <<cfg, signals, now, discussions, cancelled, lastCommentTime, tasks, storeVars,
                   resumeVars, probe>>
    /\ Remember

\* the review scan of either mode, up to the list of issues
ReviewFetch ==
    /\ pc = "reviewFetch"
    /\ \/ /\ cancelled
          /\ pc' = "idle" /\ scanList' = <<>>
          /\ UNCHANGED budget
       \/ /\ ~cancelled
          /\ \E ok \in BOOLEAN :
                /\ Pay(Failed(ok))
                /\ IF ok THEN pc' = "reviewScan" /\ scanList' = GetProjectIssues(ReviewLabel)
                         ELSE pc' = "idle" /\ scanList' = <<>>
    /\ UNCHANGED <<cfg, signals, now, trackerVars, cancelled, processedIssues, lastCommentTime,
                   runVars, storeVars, resumeVars, probe>>
    /\ Remember

\* the end of the review scan, and its return when the context is cancelled
ReviewScanEnd ==
    /\ pc = "reviewScan"
    /\ scanList = <<>> \/ cancelled
    /\ pc' = "idle" /\ scanList' = <<>>
    /\ UNCHANGED <<cfg, signals, now, trackerVars, cancelled, processedIssues, lastCommentTime,
                   runVars, storeVars, resumeVars, probe, budget>>
    /\ Remember

-----------------------------------------------------------------------------
(* The review scan in memory mode: checkForReviewIssuesWithCommentsWithContext *)

\* the cutoff for new comments
CutoffTime(session) ==
    IF session.LastCommentTime # NoTime THEN session.LastCommentTime
    ELSE session.CompletionTime

ResumeCommand_FromConfig(session, newComments) ==
    [ issue   |-> session.IssueIID,
      Path    |-> ClaudeCommand,
      Flags   |-> ClaudeFlags,
      Resume  |-> session.SessionID,
      Prompt  |-> newComments,
      Dir     |-> RepoDir,
      Env     |-> EnvMap(OsEnviron),
      state   |-> "running" ]

\* resumeSessionWithCommentsWithContext: the command it builds, the stored values
\* first and the configured ones where the record has none
ResumeCommand(session, newComments) ==
    [ issue   |-> session.IssueIID,
      Path    |-> IF session.ClaudeCommand = "" THEN ClaudeCommand ELSE session.ClaudeCommand,
      Flags   |-> IF session.ClaudeFlags = "" THEN ClaudeFlags ELSE session.ClaudeFlags,
      Resume  |-> session.SessionID,
      Prompt  |-> newComments,
      Dir     |-> IF session.WorkingDir = "" THEN RepoDir ELSE session.WorkingDir,
      Env     |-> IF ~session.EnvVars.nil /\ DOMAIN session.EnvVars.m # {}
                  THEN session.EnvVars.m ELSE EnvMap(OsEnviron),
      state   |-> "running" ]

\* resumeSessionWithCommentsWithContext without the return of the dry-run modes
MayResume_InDryRun(session) == isValidUUID(session.SessionID)

MayResume_Unchecked(session) == cfg.runMode = "live"

\* resumeSessionWithCommentsWithContext: does it go on to start a subprocess
MayResume(session) == isValidUUID(session.SessionID) /\ cfg.runMode = "live"

\* Store.UpdateLastCommentTime from the scheduling loop. The JSON store's
\* UpdateLastCommentTime holds the write lock while Save asks for the read lock
\* of the same RWMutex: it never returns
UpdateLastCommentTime(iid, commentTime) ==
    IF cfg.store = "sqlite"
    THEN /\ sessions' = SQLiteUpdate(sessions, iid, commentTime)
         /\ pc' = pc /\ scanList' = Tail(scanList)
         /\ UNCHANGED storeLock
    ELSE /\ sessions' = JSONUpdate(sessions, iid, commentTime)
         /\ storeLock' = "writer"
         /\ pc' = "blocked" /\ UNCHANGED scanList

MemorySkip(spent) ==
    /\ Pay(spent)
    /\ pc' = pc /\ scanList' = Tail(scanList)
    /\ UNCHANGED <<storeVars, resumeVars>>

\* checkForReviewIssuesWithCommentsWithContext, one turn of the loop over the
\* issues. GetCompletedSession on the JSON store waits for the lock a writer
\* never gives back
MemoryReviewStep ==
    /\ pc = "reviewScan" /\ cfg.memory
    /\ scanList # <<>> /\ ~cancelled
    /\ LET iid == Head(scanList).iid IN
       IF cfg.store = "json" /\ storeLock # "free"
       THEN /\ pc' = "waiting"
            /\ UNCHANGED <<scanList, storeVars, resumeVars, budget>>
       ELSE IF iid \notin DOMAIN sessions
       THEN MemorySkip(0)
       ELSE LET session     == GetCompletedSession(cfg.store, sessions, iid)
                newComments == GetIssueCommentsAfter(discussions[iid], CutoffTime(session))
                latest      == newComments[Len(newComments)].t
            IN  \E fetched \in BOOLEAN :
                   IF ~fetched \/ newComments = <<>>
                   THEN MemorySkip(Failed(fetched))
                   ELSE IF ~MayResume(session)
                   THEN /\ UNCHANGED <<resumeVars, budget>>
                        /\ UpdateLastCommentTime(iid, latest)
                   ELSE \E started \in BOOLEAN :
                           IF ~started
                           THEN MemorySkip(1)
                           ELSE /\ Len(resumeCmds) < MaxResumes
                                /\ resumeCmds' = Append(resumeCmds,
                                                    ResumeCommand(session, newComments))
                                /\ resumeProcesses' = Put(resumeProcesses, iid,
                                                          Len(resumeCmds) + 1)
                                /\ UpdateLastCommentTime(iid, latest)
                                /\ UNCHANGED budget
    /\ UNCHANGED <<cfg, signals, now, trackerVars, cancelled, processedIssues, lastCommentTime,
                   runVars, probe>>
    /\ Remember

\* how a resume subprocess ends: its exit code or the signal that ended it, and
\* what it wrote to its standard error, which the daemon passes on to os.Stderr
Outcome(code, signal, stderr) == [code |-> code, signal |-> signal, stderr |-> stderr]

NoConversation == "No conversation found with session ID: " \o UUID1

ResumeOutcomes ==
    { Outcome(0, "", ""),
      Outcome(1, "", NoConversation),
      Outcome(1, "", "API Error: 529"),
      Outcome(0, "killed", "") }

\* cmd.Wait returns an error
WaitFails(outcome) == outcome.signal # "" \/ outcome.code # 0

\* err.Error() of the *exec.ExitError cmd.Wait returns: the text of the process
\* state
ErrorMsg(outcome) ==
    IF outcome.signal # "" THEN "signal: " \o outcome.signal
    ELSE "exit status " \o Itoa(outcome.code)

\* the wait goroutine's test for a session that is no longer valid
SessionIsInvalid(errorMsg) ==
    \/ Contains(errorMsg, "No conversation found")
    \/ Contains(errorMsg, "session ID")
    \/ Contains(errorMsg, "not found")

\* the wait goroutine goes on to RemoveSession
RemovesSession(outcome, ctxDone) ==
    WaitFails(outcome) /\ ~ctxDone /\ SessionIsInvalid(ErrorMsg(outcome))

\* the goroutine that waits for a resume subprocess: cmd.Wait returns, the entry
\* of the issue leaves resumeProcesses, and an error whose text reads like a lost
\* session removes the record
ResumeExit(rid, outcome) ==
    /\ Running
    /\ resumeCmds[rid].state = "running"
    /\ resumeCmds' = [resumeCmds EXCEPT ![rid].state = "exited"]
    /\ resumeProcesses' = Drop(resumeProcesses, resumeCmds[rid].issue)
    /\ IF RemovesSession(outcome, cancelled)
          /\ (cfg.store = "json" => storeLock = "free")
       THEN /\ sessions' = Drop(sessions, resumeCmds[rid].issue)
            /\ storeLock' = IF cfg.store = "json" THEN "writer" ELSE storeLock
       ELSE UNCHANGED storeVars
    /\ UNCHANGED <<cfg, signals, now, trackerVars, loopVars, lastCommentTime, runVars, probe,
                   budget>>

-----------------------------------------------------------------------------
(* The review scan without memory: checkForHumanReviewIssuesWithContext *)

\* below this many notes the scan fetches the discussions a second time
DirectFetchBelow == 14

HumanSkip(spent) ==
    /\ Pay(spent)
    /\ pc' = pc /\ scanList' = Tail(scanList)
    /\ UNCHANGED <<processedIssues, lastCommentTime, labels, procs, processes>>

\* an issue already handled in this cycle, or the fetch of its discussions: the
\* non-system notes of all threads, sorted by creation time
HumanReviewFetch ==
    /\ pc = "reviewScan" /\ ~cfg.memory
    /\ scanList # <<>> /\ ~cancelled
    /\ ~Head(scanList).fetched
    /\ IF Head(scanList).iid \in processedIssues
       THEN HumanSkip(0)
       ELSE \E ok \in BOOLEAN :
               IF ~ok THEN HumanSkip(1)
               ELSE /\ \E sorted \in SortedNotes(AllNotes(discussions[Head(scanList).iid])) :
                          scanList' = [scanList EXCEPT ![1].fetched = TRUE,
                                                       ![1].comments = sorted]
                    /\ pc' = pc
                    /\ UNCHANGED <<processedIssues, lastCommentTime, labels, procs,
                                   processes, budget>>
    /\ UNCHANGED <<cfg, signals, now, discussions, cancelled, tasks, storeVars, resumeVars, probe>>
    /\ Remember

\* the second fetch, the classification of the last comment and the claim
HumanReviewDecide ==
    /\ pc = "reviewScan" /\ ~cfg.memory
    /\ scanList # <<>> /\ ~cancelled
    /\ Head(scanList).fetched
    /\ \E directOK \in BOOLEAN :
          LET issue    == Head(scanList)
              direct   == AllNotes(discussions[issue.iid])
              comments == IF /\ Len(issue.comments) < DirectFetchBelow
                             /\ directOK
                             /\ Len(direct) > Len(issue.comments)
                          THEN direct ELSE issue.comments
              last     == comments[Len(comments)]
              seen     == issue.iid \in DOMAIN lastCommentTime
          IN  IF comments = <<>>
              THEN HumanSkip(Failed(directOK))
              ELSE IF /\ ~IsBotComment(last.author, cfg.svc.username)
                      /\ IsNewerComment(seen, IF seen THEN lastCommentTime[issue.iid] ELSE 0,
                                        last.t)
              THEN /\ pc' = pc /\ scanList' = Tail(scanList)
                   /\ processedIssues' = processedIssues \cup {issue.iid}
                   /\ lastCommentTime' = Put(lastCommentTime, issue.iid, last.t)
                   /\ ProcessIssueWithLabelUpdate(issue, Failed(directOK))
              ELSE HumanSkip(Failed(directOK))
    /\ UNCHANGED <<cfg, signals, now, discussions, cancelled, tasks, storeVars, resumeVars, probe>>
    /\ Remember

-----------------------------------------------------------------------------
(* A Run: the goroutine of RunProcessAsync, and the completion handler *)

RunIds == 1..MaxRuns

\* the Runs of the process manager's table whose status is starting or running
ActiveRuns(i) ==
    {k \in DOMAIN procs :
        /\ procs[k].ID \in DOMAIN processes /\ processes[procs[k].ID] = k
        /\ procs[k].IssueNum = i
        /\ procs[k].Status \in {"starting", "running"}}

\* onCompletion: the goroutine it starts
NewTask(success) ==
    [ step     |-> IF success THEN "comment" ELSE "getIssue",
      success  |-> success,
      wake     |-> 0,
      snapshot |-> <<>> ]

\* a handler that has returned, or waits for ever: its locals are gone
EndTask(task, step) == [task EXCEPT !.step = step, !.wake = 0, !.snapshot = <<>>]

\* a Process nothing refers to any more: out of the table, its handler over
Forgotten(process) ==
    [process EXCEPT !.ID = "", !.ClaudeSessionID = "", !.WorkingDir = "", !.Env = <<>>]

\* RunProcessAsync with a subprocess that does not start: RunProcess marks the
\* Run failed and calls the completion callback, the deferred RemoveProcess
\* takes the Run out of the table
RunStartFails(k) ==
    /\ Running
    /\ k \in DOMAIN procs /\ procs[k].gpc = "start"
    /\ procs' = [procs EXCEPT ![k].Status = "failed", ![k].gpc = "done"]
    /\ processes' = Drop(processes, procs[k].ID)
    /\ tasks' = Put(tasks, k, NewTask(FALSE))
    /\ UNCHANGED <<cfg, signals, now, trackerVars, loopVars, lastCommentTime, storeVars,
                   resumeVars, probe, budget>>

\* RunProcess up to cmd.Start, the subprocess starts
RunStart(k) ==
    /\ Running
    /\ k \in DOMAIN procs /\ procs[k].gpc = "start"
    /\ procs' = [procs EXCEPT ![k].Status = "running", ![k].gpc = "scan"]
    /\ UNCHANGED <<cfg, signals, now, trackerVars, loopVars, lastCommentTime, processes, tasks,
                   storeVars, resumeVars, probe, budget>>

\* RunProcess, one line of the subprocess's standard output
RunOutput(k, line) ==
    /\ Running
    /\ k \in DOMAIN procs /\ procs[k].gpc = "scan"
    /\ procs' = [procs EXCEPT ![k].ClaudeSessionID = CaptureSessionID(@, line)]
    /\ UNCHANGED <<cfg, signals, now, trackerVars, loopVars, lastCommentTime, processes, tasks,
                   storeVars, resumeVars, probe, budget>>

\* RunProcess that marks the Run completed whatever cmd.Wait returns
RunExit_AlwaysCompleted(k, success) ==
    /\ Running
    /\ k \in DOMAIN procs /\ procs[k].gpc = "scan"
    /\ procs' = [procs EXCEPT ![k].Status = "completed", ![k].gpc = "done"]
    /\ processes' = Drop(processes, procs[k].ID)
    /\ tasks' = Put(tasks, k, NewTask(success))
    /\ UNCHANGED <<cfg, signals, now, trackerVars, loopVars, lastCommentTime, storeVars,
                   resumeVars, probe, budget>>

\* RunProcess from cmd.Wait on: the final status and the completion callback,
\* then the deferred RemoveProcess(process.ID) of RunProcessAsync
RunExit(k, success) ==
    /\ Running
    /\ k \in DOMAIN procs /\ procs[k].gpc = "scan"
    /\ procs' = [procs EXCEPT ![k].Status = IF success THEN "completed" ELSE "failed",
                              ![k].gpc = "done"]
    /\ processes' = Drop(processes, procs[k].ID)
    /\ tasks' = Put(tasks, k, NewTask(success))
    /\ UNCHANGED <<cfg, signals, now, trackerVars, loopVars, lastCommentTime, storeVars,
                   resumeVars, probe, budget>>

\* onCompletion, success: the completion comment, then the two-second sleep
TaskComment(k, ok) ==
    /\ Running
    /\ Pay(Failed(ok))
    /\ k \in DOMAIN tasks /\ tasks[k].step = "comment"
    /\ IF ok
       THEN /\ discussions' = [discussions EXCEPT ![procs[k].IssueNum] =
                                  Append(@, <<Note(cfg.svc, FALSE, now)>>)]
            /\ lastCommentTime' = Put(lastCommentTime, procs[k].IssueNum, now)
       ELSE UNCHANGED <<discussions, lastCommentTime>>
    /\ tasks' = [tasks EXCEPT ![k].step = "getIssue", ![k].wake = now + Seconds(2)]
    /\ UNCHANGED <<cfg, signals, now, labels, loopVars, procs, processes, storeVars, resumeVars,
                   probe>>

\* onCompletion: GetIssue for the current labels; the handler returns when the
\* call fails
TaskGetIssue(k, ok) ==
    /\ Running
    /\ Pay(Failed(ok))
    /\ k \in DOMAIN tasks /\ tasks[k].step = "getIssue"
    /\ now >= tasks[k].wake
    /\ IF ok
       THEN /\ tasks' = [tasks EXCEPT ![k].step = "update", ![k].wake = 0,
                                      ![k].snapshot = LabelList(labels[procs[k].IssueNum])]
            /\ UNCHANGED procs
       ELSE /\ tasks' = [tasks EXCEPT ![k] = EndTask(@, "done")]
            /\ procs' = [procs EXCEPT ![k] = Forgotten(@)]
    /\ UNCHANGED <<cfg, signals, now, trackerVars, loopVars, lastCommentTime, processes,
                   storeVars, resumeVars, probe>>

\* onCompletion, success: the identifier to store
StoredSessionID(process) ==
    IF process.ClaudeSessionID = "" THEN process.ID ELSE process.ClaudeSessionID

\* Store.AddCompletedSession from the completion handler k. The JSON store's
\* AddCompletedSession holds the write lock while Save asks for the read lock of
\* the same RWMutex: the call never returns, and a call that finds the lock
\* taken waits for ever
AddCompletedSession(k) ==
    IF cfg.store = "sqlite"
    THEN /\ sessions' = SQLiteAdd(sessions, procs[k].IssueNum, StoredSessionID(procs[k]),
                                  ProjectPath, now, procs[k].WorkingDir, ClaudeCommand,
                                  ClaudeFlags, GoMap(EnvMap(procs[k].Env)))
         /\ UNCHANGED storeLock
    ELSE IF storeLock = "free"
    THEN /\ sessions' = JSONAdd(sessions, procs[k].IssueNum, StoredSessionID(procs[k]),
                                ProjectPath, now, procs[k].WorkingDir, ClaudeCommand,
                                ClaudeFlags, GoMap(EnvMap(procs[k].Env)))
         /\ storeLock' = "writer"
    ELSE UNCHANGED storeVars

\* onCompletion, failure: UpdateIssueLabels with the list built from the snapshot
TaskFailed(k, ok) ==
    /\ Running
    /\ Pay(Failed(ok))
    /\ k \in DOMAIN tasks /\ tasks[k].step = "update" /\ ~tasks[k].success
    /\ labels' = IF ok
                 THEN [labels EXCEPT ![procs[k].IssueNum] =
                          LabelSet(FailureLabels(tasks[k].snapshot))]
                 ELSE labels
    /\ tasks' = [tasks EXCEPT ![k] = EndTask(@, "done")]
    /\ procs' = [procs EXCEPT ![k] = Forgotten(@)]
    /\ UNCHANGED <<cfg, signals, now, discussions, loopVars, lastCommentTime, processes,
                   storeVars, resumeVars, probe>>

\* onCompletion, success: UpdateIssueLabels with the list built from the
\* snapshot, then AddCompletedSession
TaskSucceeded(k, ok) ==
    /\ Running
    /\ Pay(Failed(ok))
    /\ k \in DOMAIN tasks /\ tasks[k].step = "update" /\ tasks[k].success
    /\ labels' = IF ok
                 THEN [labels EXCEPT ![procs[k].IssueNum] =
                          LabelSet(SuccessLabels(tasks[k].snapshot))]
                 ELSE labels
    /\ AddCompletedSession(k)
    /\ tasks' = [tasks EXCEPT ![k] =
                    EndTask(@, IF cfg.store = "sqlite" THEN "done" ELSE "blocked")]
    /\ procs' = [procs EXCEPT ![k] = Forgotten(@)]
    /\ UNCHANGED <<cfg, signals, now, discussions, loopVars, lastCommentTime, processes,
                   resumeVars, probe>>

-----------------------------------------------------------------------------
(* The daemon with its tracker *)

\* the steps of the environment and those the two modes share
Common ==
    \/ Advance
    \/ \E i \in Issues : ExtAddTrigger(i)
    \/ \E i \in Issues, note \in ExternalNotes(now), thread \in 0..MaxEvents :
          ExtAddNote(i, note, thread)
    \/ Interrupt
    \/ Tick
    \/ Shutdown
    \/ NewFetch
    \/ NewScanStep
    \/ ReviewFetch
    \/ ReviewScanEnd
    \/ \E k \in RunIds : RunStartFails(k)
    \/ \E k \in RunIds : RunStart(k)
    \/ \E k \in RunIds, line \in OutputLines : RunOutput(k, line)
    \/ \E k \in RunIds, success \in BOOLEAN : RunExit(k, success)
    \/ \E k \in RunIds, ok \in BOOLEAN : TaskComment(k, ok)
    \/ \E k \in RunIds, ok \in BOOLEAN : TaskGetIssue(k, ok)
    \/ \E k \in RunIds, ok \in BOOLEAN : TaskFailed(k, ok)
    \/ \E k \in RunIds, ok \in BOOLEAN : TaskSucceeded(k, ok)

\* Daemon.Run
MemoryMode ==
    \/ MemoryReviewStep
    \/ \E rid \in 1..MaxResumes, outcome \in ResumeOutcomes :
          rid \in DOMAIN resumeCmds /\ ResumeExit(rid, outcome)

\* Daemon.RunWithoutMemory
MemorylessMode ==
    \/ HumanReviewFetch
    \/ HumanReviewDecide

Next == Common \/ MemoryMode \/ MemorylessMode

Spec == Init /\ [][Next]_vars

\* the daemon in memory mode only
InitMemory == Init /\ cfg.memory

NextMemory == Common \/ MemoryMode

SpecMemory == InitMemory /\ [][NextMemory]_vars

-----------------------------------------------------------------------------
(* The properties *)

WorkflowLabels == {ClaudeLabel, ProcessLabel, ReviewLabel, ErrorLabel}

\* C1: at every instant and for every ticket, the process manager's table holds
\* at most one Run of the ticket whose status is starting or running.
C1_AtMostOneActiveRun == \A i \in Issues : Cardinality(ActiveRuns(i)) <= 1

\* the new-work scan takes its turn for ticket i, which it sees with the trigger
\* label as its only workflow label, with an empty table, not in a dry run, and
\* no call of the turn fails
C2_ScanClaims(i) ==
    /\ pc = "newScan" /\ scanList # <<>> /\ ~cancelled
    /\ Head(scanList).iid = i /\ i \notin processedIssues
    /\ cfg.runMode = "live"
    /\ LabelSet(Head(scanList).labels) \cap WorkflowLabels = {ClaudeLabel}
    /\ processes = Empty
    /\ scanList' = Tail(scanList)
    /\ budget' = budget

C3_HandlerReturns(k) ==
    /\ k \in DOMAIN tasks
    /\ tasks[k].success /\ tasks[k].step = "update"
    /\ tasks'[k].step = "done"
    /\ budget' = budget

StoredRecord(i) == GetCompletedSession(cfg.store, sessions, i)

\* the notes of ticket i a person wrote after the record's cutoff
NewHumanNotes(i) ==
    {k \in 1..Len(Flatten(discussions[i])) :
        LET note == Flatten(discussions[i])[k]
        IN  /\ ~note.system
            /\ ~IsBotComment(note.author, cfg.svc.username)
            /\ note.t > CutoffTime(StoredRecord(i))}

\* a turn of the memory-mode review scan on ticket i, not in a dry run, in which
\* no call fails: the ticket has a record with a canonical identifier and a
\* human note newer than the cutoff
C4_ReviewTurn(i) ==
    /\ cfg.memory /\ cfg.runMode = "live"
    /\ pc = "reviewScan" /\ scanList # <<>> /\ ~cancelled
    /\ Head(scanList).iid = i
    /\ i \in DOMAIN sessions
    /\ isValidUUID(StoredRecord(i).SessionID)
    /\ NewHumanNotes(i) # {}
    /\ scanList' = Tail(scanList) \/ pc' = "blocked"
    /\ budget' = budget

NotesNewerThanCutoff(i) ==
    {k \in 1..Len(Flatten(discussions[i])) :
        LET note == Flatten(discussions[i])[k]
        IN  /\ ~note.system
            /\ IF cfg.memory
               THEN note.t > CutoffTime(StoredRecord(i))
               ELSE IsNewerComment(i \in DOMAIN lastCommentTime,
                                   IF i \in DOMAIN lastCommentTime
                                   THEN lastCommentTime[i] ELSE 0, note.t)}

\* the review scan is at ticket i, whose notes newer than the cutoff are all of
\* the configured service account, and there is such a note
C5_OnlyBotNotesAreNew(i) ==
    /\ pc = "reviewScan" /\ scanList # <<>> /\ ~cancelled
    /\ Head(scanList).iid = i
    /\ ReviewLabel \in labels[i]
    /\ cfg.memory => i \in DOMAIN sessions
    /\ NotesNewerThanCutoff(i) # {}
    /\ \A k \in NotesNewerThanCutoff(i) : Flatten(discussions[i])[k].author = cfg.svc

\* C5: in both modes, the review scan's turn on a ticket whose only notes newer
\* than the cutoff are of the configured service account starts no resume
\* subprocess and no Run.
C5_BotNoteStartsNothing ==
    [][ \A i \in Issues :
           C5_OnlyBotNotesAreNew(i) =>
              /\ Len(resumeCmds') = Len(resumeCmds)
              /\ Len(procs') = Len(procs)
      ]_vars

\* the identifiers the completion handler stores when none was captured
FallbackIDs == {ProcessID(i, t) : i \in Issues, t \in 0..MaxTime}

\* C6: every resume subprocess is started with a session identifier of the
\* canonical form, never with a fallback identifier issue-<ticket>-<unix time>.
C6_ResumeOnlyCanonical ==
    \A rid \in DOMAIN resumeCmds :
       /\ isValidUUID(resumeCmds[rid].Resume)
       /\ resumeCmds[rid].Resume \notin FallbackIDs

C6_FallbackSeenNotResumed ==
    \E i \in DOMAIN sessions :
       /\ cfg.memory /\ cfg.runMode = "live"
       /\ StoredRecord(i).SessionID \in FallbackIDs
       /\ StoredRecord(i).LastCommentTime # NoTime
       /\ resumeCmds = <<>>

-----------------------------------------------------------------------------
(* The functions on their own: probe holds the arguments and the result, the *)
(* daemon stands still                                                       *)

rest == <<cfg, now, labels, discussions, pc, cancelled, scanList, processedIssues, handled,
          lastCommentTime, procs, processes, tasks, sessions, storeLock,
          resumeCmds, resumeProcesses, signals, budget>>

\* a daemon that has been constructed and does nothing
Parked ==
    /\ cfg = [memory |-> FALSE, runMode |-> "dry", svc |-> ServiceAccount,
              store |-> "sqlite"]
    /\ Quiet /\ Fresh
    /\ budget = 0

(* The session stores: AddCompletedSession, then GetCompletedSession *)

MaxStoreTime == 3   \* completion times of the records written, in ticks

EnvSnapshots ==
    { NilMap,
      GoMap([k \in {} |-> ""]),
      GoMap([k \in {"HOME"} |-> "/home/dev"]),
      GoMap(EnvMap(OsEnviron)) }

\* the arguments of AddCompletedSession
StoreArgs ==
    [ IssueIID       : {1},
      SessionID      : {UUID1, ProcessID(1, 0)},
      ProjectPath    : {ProjectPath},
      CompletionTime : 0..MaxStoreTime,
      WorkingDir     : {RepoDir, ""},
      ClaudeCommand  : {ClaudeCommand},
      ClaudeFlags    : {ClaudeFlags, ""},
      EnvVars        : EnvSnapshots ]

InitStore ==
    /\ Parked
    /\ \E kind \in {"sqlite", "json"}, args \in StoreArgs, replace \in BOOLEAN :
          probe = [ op |-> "store", kind |-> kind, step |-> "start", args |-> args,
                    tbl |-> IF replace THEN StoreWith(kind, 1) ELSE Empty,
                    mu |-> "free", result |-> None ]

\* AddCompletedSession. The SQLite store executes its INSERT OR REPLACE and
\* returns; the JSON store takes mu.Lock, assigns, and calls Save, which waits
\* for mu.RLock: the call does not return
StoreAdd ==
    /\ probe.op = "store" /\ probe.step = "start"
    /\ LET a == probe.args IN
       IF probe.kind = "sqlite"
       THEN probe' = [probe EXCEPT
                        !.step = "added",
                        !.tbl = SQLiteAdd(probe.tbl, a.IssueIID, a.SessionID, a.ProjectPath,
                                          a.CompletionTime, a.WorkingDir, a.ClaudeCommand,
                                          a.ClaudeFlags, a.EnvVars)]
       ELSE probe' = [probe EXCEPT
                        !.step = "inSave", !.mu = "writer",
                        !.tbl = JSONAdd(probe.tbl, a.IssueIID, a.SessionID, a.ProjectPath,
                                        a.CompletionTime, a.WorkingDir, a.ClaudeCommand,
                                        a.ClaudeFlags, a.EnvVars)]
    /\ UNCHANGED rest

\* GetCompletedSession after the add has returned; the JSON store's needs mu.RLock
StoreGet ==
    /\ probe.op = "store" /\ probe.step = "added"
    /\ probe.kind = "json" => probe.mu = "free"
    /\ probe' = [probe EXCEPT
                   !.step = "read",
                   !.result = GetCompletedSession(probe.kind, probe.tbl, probe.args.IssueIID)]
    /\ UNCHANGED rest

NextStore == StoreAdd \/ StoreGet
SpecStore == InitStore /\ [][NextStore]_vars

(* The label lists of the claim: processIssueWithLabelUpdate against the tracker *)

MaxClaims == 3   \* claims of one ticket in a row

\* the orders in which the tracker may list the labels
LabelOrders == {[k \in 1..Cardinality(Labels) |-> LabelOrder[f[k]]] :
                   f \in Orders(Cardinality(Labels))}

InitLabels ==
    /\ Parked
    /\ \E order \in LabelOrders, set \in SUBSET Labels :
          probe = [op |-> "labels", order |-> order, labels |-> set, claims |-> 0]

\* one claim: the issue as the tracker lists it, the list of the claim written
\* back, of which the tracker keeps the set
Claim ==
    /\ probe.op = "labels" /\ probe.claims < MaxClaims
    /\ probe' = [probe EXCEPT
                   !.claims = @ + 1,
                   !.labels = LabelSet(ClaimLabels(SelectLabels(probe.order, probe.labels)))]
    /\ UNCHANGED rest

NextLabels == Claim
SpecLabels == InitLabels /\ [][NextLabels]_vars

(* The bot detection of the review scan without memory *)

AuthorNames     == {"Claude Bot", "Alice", "Dev", "CLAUDE", "Robot Nine"}
AuthorUsernames == {"claude-bot", "alice123", "claude-dev", "Svc-BOT", "automation",
                    "project_1_bot_a1"}
ConfigUsernames == {"claude-bot", "alice123", "claude-dev", "automation"}

InitClassify ==
    /\ Parked
    /\ \E name \in AuthorNames, username \in AuthorUsernames, config \in ConfigUsernames :
          probe = [ op |-> "author", step |-> "start",
                    author |-> [name |-> name, username |-> username],
                    configUsername |-> config, result |-> FALSE ]

Classify ==
    /\ probe.op = "author" /\ probe.step = "start"
    /\ probe' = [probe EXCEPT !.step = "classified",
                              !.result = IsBotComment(probe.author, probe.configUsername)]
    /\ UNCHANGED rest

NextClassify == Classify
SpecClassify == InitClassify /\ [][NextClassify]_vars

(* The cutoff: GetIssueCommentsAfterWithContext and the comparison of the *)
(* review scan without memory                                              *)

MaxNoteTime == 3   \* creation times and cutoffs, in ticks

NotePool == {Note(Alice, system, t) : system \in BOOLEAN, t \in 0..MaxNoteTime}

ThreadPool ==
    {<<>>} \cup {<<<<a>>>> : a \in NotePool}
           \cup {<<<<a, b>>>> : a \in NotePool, b \in NotePool}
           \cup {<<<<a>>, <<b>>>> : a \in NotePool, b \in NotePool}

InitNotes ==
    /\ Parked
    /\ \E threads \in ThreadPool, cutoff \in 0..MaxNoteTime :
          probe = [ op |-> "notes", step |-> "start", threads |-> threads,
                    cutoff |-> cutoff, result |-> <<>>, newer |-> FALSE ]

\* the memory-mode scan's fetch of the comments after the cutoff
FetchAfter ==
    /\ probe.op = "notes" /\ probe.step = "start"
    /\ probe' = [probe EXCEPT !.step = "fetched",
                              !.result = GetIssueCommentsAfter(probe.threads, probe.cutoff)]
    /\ UNCHANGED rest

\* the memory-less scan's comparison of the last comment with the time stored for
\* the issue
CompareLast ==
    /\ probe.op = "notes" /\ probe.step = "start"
    /\ AllNotes(probe.threads) # <<>>
    /\ LET comments == AllNotes(probe.threads)
       IN  probe' = [probe EXCEPT
                       !.step = "compared",
                       !.result = <<comments[Len(comments)]>>,
                       !.newer = IsNewerComment(TRUE, probe.cutoff,
                                                comments[Len(comments)].t)]
    /\ UNCHANGED rest

NextNotes == FetchAfter \/ CompareLast
SpecNotes == InitNotes /\ [][NextNotes]_vars

-----------------------------------------------------------------------------
(* The properties of the functions *)

C7_Written(field) == probe.args[field]

\* C7: on both stores, the record GetCompletedSession returns after
\* AddCompletedSession has the ticket number, session identifier, project path,
\* completion time, working directory, command, flags and environment map that
\* were written.
C7_AddThenGetRoundTrips ==
    (probe.op = "store" /\ probe.step = "read") =>
        \A field \in DOMAIN probe.args : probe.result[field] = C7_Written(field)

\* the fields other than the completion time do come back
C7_OtherFieldsRoundTrip ==
    (probe.op = "store" /\ probe.step = "read") =>
        \A field \in DOMAIN probe.args \ {"CompletionTime"} :
            probe.result[field] = C7_Written(field)

\* C8: a claim of a ticket that has been claimed before leaves the tracker's set
\* of labels of the ticket as it is.
C8_SecondClaimIsNoOp ==
    [][ (probe.op = "labels" /\ probe.claims >= 1 /\ probe'.claims = probe.claims + 1)
           => probe'.labels = probe.labels ]_vars

C8_ClaimedTwice ==
    /\ probe.op = "labels" /\ probe.claims = 2
    /\ ClaudeLabel \notin probe.labels /\ ProcessLabel \in probe.labels
    /\ OtherLabel \in probe.labels

\* does the text contain one of the substrings, whatever the case of its letters
HasIndicator(text, substrings) == \E sub \in substrings : Contains(ToLower(text), sub)

\* C9 as stated, with one set of bot-indicating substrings for the display name
\* and the handle: a note is of a bot exactly when the display name or the handle
\* contains one of them, or the handle is the configured one and that contains
\* one of them.
C9_OneSetOfIndicators ==
    (probe.op = "author" /\ probe.step = "classified") =>
        (probe.result <=>
            \/ HasIndicator(probe.author.name, {"claude", "bot"})
            \/ HasIndicator(probe.author.username, {"claude", "bot"})
            \/ /\ probe.author.username = probe.configUsername
               /\ HasIndicator(probe.configUsername, {"claude", "bot"}))

\* C9: a note is classified as bot-authored exactly when its author's display
\* name contains "claude" or "bot", or its author's handle contains "bot",
\* whatever the case of the letters; the author Claude Bot / claude-bot is a bot,
\* the author Alice / alice123 is human.
C9_NameOrHandle ==
    (probe.op = "author" /\ probe.step = "classified") =>
        /\ probe.result <=>
              \/ HasIndicator(probe.author.name, {"claude", "bot"})
              \/ HasIndicator(probe.author.username, {"bot"})
        /\ probe.author = ServiceAccount => probe.result
        /\ probe.author = Alice => ~probe.result

C9_HandleWithClaudeIsHuman ==
    /\ probe.op = "author" /\ probe.step = "classified"
    /\ probe.author = [name |-> "Dev", username |-> "claude-dev"]
    /\ probe.configUsername = "claude-dev"
    /\ ~probe.result

\* the notes of all threads
C10_Notes == Flatten(probe.threads)

\* C10: for a cutoff T, the notes the review scan treats as new are exactly the
\* non-system notes created strictly after T; a note created at T or before,
\* and a system note, is never among them.
C10_NewIffStrictlyLater ==
    /\ (probe.op = "notes" /\ probe.step = "fetched") =>
          /\ \A j \in 1..Len(probe.result) :
                ~probe.result[j].system /\ probe.result[j].t > probe.cutoff
          /\ \A k \in 1..Len(C10_Notes) :
                (~C10_Notes[k].system /\ C10_Notes[k].t > probe.cutoff)
                   => \E j \in 1..Len(probe.result) : probe.result[j] = C10_Notes[k]
          /\ Len(probe.result) =
                Cardinality({k \in 1..Len(C10_Notes) :
                                ~C10_Notes[k].system /\ C10_Notes[k].t > probe.cutoff})
    /\ (probe.op = "notes" /\ probe.step = "compared") =>
          /\ ~probe.result[1].system
          /\ probe.newer <=> probe.result[1].t > probe.cutoff

C10_SecondLaterIsNewSameInstantIsNot ==
    /\ probe.op = "notes" /\ probe.step = "fetched"
    /\ probe.cutoff = 1
    /\ probe.threads = << <<Note(Alice, FALSE, 1)>>,
                          <<Note(Alice, FALSE, 1 + Seconds(1))>> >>
    /\ probe.result = <<Note(Alice, FALSE, 1 + Seconds(1))>>

-----------------------------------------------------------------------------
(* The phases of a ticket, the scans of one tick, failures *)

\* the daemon writes the labels of ticket i in this step: the labels change, and
\* not by an external actor's adding the trigger label
DaemonWritesLabels(i) ==
    /\ labels'[i] # labels[i]
    /\ labels'[i] # labels[i] \cup {ClaudeLabel}

\* C11: after every label update of the daemon (claim, completion on success,
\* completion on failure) the ticket carries at most one of the phase labels
\* trigger, progress, review and error.
C11_OnePhaseLabel ==
    [][ \A i \in Issues :
           DaemonWritesLabels(i) => Cardinality(labels'[i] \cap WorkflowLabels) <= 1
      ]_vars

\* C12: within one polling cycle a Run or a resume is started for a ticket at
\* most once, whichever scans return the ticket.
C12_OncePerCycle ==
    [][ \A i \in Issues : Started(i) => i \notin handled ]_vars

\* the new-work scan takes its turn for ticket i, fetched with the trigger label,
\* which a Run was started for in an earlier polling cycle and nothing in this
\* one, not in a dry run, and no call of the turn fails
C13_LaterTurn(i) ==
    /\ pc = "newScan" /\ scanList # <<>> /\ ~cancelled
    /\ Head(scanList).iid = i
    /\ i \notin handled
    /\ \E k \in DOMAIN procs : procs[k].IssueNum = i
    /\ cfg.runMode = "live"
    /\ scanList' = Tail(scanList)
    /\ budget' = budget

\* C13: the set of handled tickets lasts one polling cycle in both loops: a
\* ticket handled in an earlier cycle that carries the trigger label again is
\* claimed again and a Run is started for it.
C13_ClaimedAgainInLaterCycle ==
    [][ \A i \in Issues :
           C13_LaterTurn(i) =>
              /\ ProcessLabel \in labels'[i]
              /\ Len(procs') = Len(procs) + 1
              /\ procs'[Len(procs')].IssueNum = i
      ]_vars

\* a Run of ticket i is registered in this step
C14_Registered(i) ==
    /\ Len(procs') = Len(procs) + 1
    /\ procs'[Len(procs')].IssueNum = i

\* C14: a Run is registered only by a scan's turn on its ticket, not in a dry run,
\* in the first attempt on the ticket in the cycle, and in a turn whose label
\* update went through: the tracker holds the labels of the claim when the Run
\* enters the table, and the Run's subprocess has not been started then. A turn
\* whose update fails leaves the table as it is, and the ticket is not tried
\* again in that cycle.
C14_LabelsBeforeRun ==
    [][ \A i \in Issues :
           C14_Registered(i) =>
              /\ cfg.runMode = "live"
              /\ pc \in {"newScan", "reviewScan"}
              /\ scanList # <<>> /\ Head(scanList).iid = i
              /\ i \notin processedIssues
              /\ labels'[i] = LabelSet(ClaimLabels(Head(scanList).labels))
              /\ procs'[Len(procs')].Status = "starting"
              /\ procs'[Len(procs')].gpc = "start"
      ]_vars

\* the memory-less review scan has claimed a ticket with a human's note: the labels
\* are written, the Run is in the table and its subprocess is not started yet
C14_ReviewTurnRegistered ==
    \E k \in DOMAIN procs :
       /\ pc = "reviewScan" /\ ~cfg.memory
       /\ procs[k].gpc = "start" /\ procs[k].Status = "starting"
       /\ procs[k].IssueNum \in handled
       /\ labels[procs[k].IssueNum] \cap WorkflowLabels = {ProcessLabel}

\* Run k ends in this step because its subprocess did not start or exited with a
\* code other than zero
C15_RunFails(k) ==
    /\ k \in DOMAIN procs /\ procs[k].gpc \in {"start", "scan"}
    /\ procs'[k].gpc = "done"
    /\ k \in DOMAIN tasks' /\ ~tasks'[k].success

\* the failure handler of Run k writes the labels in this step
C15_HandlerWrites(k) ==
    /\ k \in DOMAIN tasks /\ tasks[k].step = "update" /\ ~tasks[k].success
    /\ tasks'[k].step = "done"
    /\ budget' = budget

\* a Run of ticket i has failed
C15_HasFailed(i) ==
    \E k \in DOMAIN procs : procs[k].IssueNum = i /\ procs[k].Status = "failed"

-----------------------------------------------------------------------------
(* Shutdown *)

\* the subprocesses the daemon still tracks: the Runs of the table that are
\* starting or running, and the resume subprocesses of resumeProcesses
C16_Tracked ==
    {<<"run", k>> : k \in UNION {ActiveRuns(i) : i \in Issues}}
       \cup {<<"resume", resumeProcesses[i]>> : i \in DOMAIN resumeProcesses}

\* C16: when the loop has returned after the cancellation, every Run still in the
\* table, starting or running, and every tracked resume subprocess has been sent
\* the termination signal and, if it was still alive after the grace period, the
\* kill, whichever branch of the select saw the cancellation.
C16_AllTerminatedAtReturn ==
    pc = "returned" =>
       /\ C16_Tracked \subseteq signals.TERM
       /\ C16_Tracked \subseteq signals.KILL

\* a step of the goroutine that runs the scheduling loop
LoopStep ==
    \/ Tick
    \/ Shutdown
    \/ NewFetch
    \/ NewScanStep
    \/ ReviewFetch
    \/ ReviewScanEnd
    \/ MemoryReviewStep
    \/ HumanReviewFetch
    \/ HumanReviewDecide

\* the loop's goroutine is scheduled as long as it can take a step: the ticker
\* fires, every tracker call returns or times out
SpecLoop == Init /\ [][Next]_vars /\ WF_vars(LoopStep)

\* C17: once the interrupt has cancelled the root context the scheduling loop
\* returns, whatever it was doing.
C17_ReturnsAfterInterrupt == cancelled ~> (pc = "returned")

-----------------------------------------------------------------------------
(* Dry run and semi-dry run *)

\* C18: in dry-run and in semi-dry-run mode the daemon writes no label and no
\* comment to the tracker, registers no Run and starts no subprocess of the
\* agent, fresh or resumed: the tracker changes by the steps of external actors
\* only, and the process table, the Runs and the resume subprocesses stay empty.
C18_DryRunsWriteNothing ==
    [][ cfg.runMode # "live" =>
           /\ (labels' # labels \/ discussions' # discussions) =>
                 /\ budget' = budget - 1
                 /\ UNCHANGED <<pc, scanList, processedIssues, lastCommentTime, sessions>>
           /\ procs' = <<>> /\ processes' = Empty /\ tasks' = Empty
           /\ resumeCmds' = <<>> /\ resumeProcesses' = Empty
      ]_vars

\* a semi-dry run in memory mode: the new-work scan has had its turn on a ticket
\* with the trigger label, the review scan has seen a person's new note on it,
\* and the tracker, the table and the subprocesses are as they were
C18_ScansPassedInSemiDryRun ==
    \E i \in DOMAIN sessions :
       /\ cfg.runMode = "semi" /\ cfg.memory
       /\ i \in processedIssues
       /\ {ClaudeLabel, ReviewLabel} \subseteq labels[i]
       /\ isValidUUID(StoredRecord(i).SessionID)
       /\ StoredRecord(i).LastCommentTime # NoTime
       /\ procs = <<>> /\ resumeCmds = <<>>

-----------------------------------------------------------------------------
(* Startup: New, the migration of the JSON file, the cleanup of the SQLite store *)

\* the age beyond which New has CleanupOldSessions delete, in seconds
MaxAge == 7 * 24 * 3600

\* the instant of the start, in ticks, and the cutoff CleanupOldSessions computes
StartTime == Seconds(MaxAge + 3) + 1
Cutoff(t, maxAge) == Unix(t - Seconds(maxAge))

\* SQLiteSessionStore.CleanupInvalidSessions: the rows whose session_id does not
\* match the pattern are deleted
CleanupInvalidSessions(tbl) ==
    [i \in {j \in DOMAIN tbl : isValidUUID(tbl[j].session_id)} |-> tbl[i]]

\* SQLiteSessionStore.CleanupOldSessions: DELETE ... WHERE completion_time < cutoff
CleanupOldSessions(tbl, maxAge, t) ==
    [i \in {j \in DOMAIN tbl : ~(tbl[j].completion_time < Cutoff(t, maxAge))} |-> tbl[i]]

\* the row MigrateFromJSONStore writes for one session of the JSON store
MigratedRow(session) ==
    LET added == SQLiteAdd(Empty, session.IssueIID, session.SessionID, session.ProjectPath,
                           session.CompletionTime, session.WorkingDir,
                           session.ClaudeCommand, session.ClaudeFlags, session.EnvVars)
    IN  IF session.LastCommentTime # NoTime
        THEN SQLiteUpdate(added, session.IssueIID, session.LastCommentTime)[session.IssueIID]
        ELSE added[session.IssueIID]

\* SQLiteSessionStore.MigrateFromJSONStore: INSERT OR REPLACE for every session
MigrateFromJSONStore(tbl, jsonTbl) ==
    [i \in DOMAIN tbl \cup DOMAIN jsonTbl |->
        IF i \in DOMAIN jsonTbl THEN MigratedRow(jsonTbl[i]) ELSE tbl[i]]

\* the rows a SQLite store may hold for one ticket when the daemon starts
StoredRows ==
    [ session_id        : {UUID1, ProcessID(1, 0)},
      project_path      : {ProjectPath},
      completion_time   : {Cutoff(StartTime, MaxAge) - 1, Cutoff(StartTime, MaxAge) + 1},
      last_comment_time : {NoTime, Cutoff(StartTime, MaxAge) + 1},
      working_dir       : {RepoDir},
      claude_command    : {ClaudeCommand},
      claude_flags      : {ClaudeFlags},
      env_vars          : {EmptyText} ]

StoredTables ==
    UNION {[S -> StoredRows] : S \in SUBSET {1, 2}}

\* the sessions.json an earlier version of the daemon has left: no file, or a
\* record of ticket 1
LegacyFiles ==
    {Empty} \cup
    { JSONAdd(Empty, 1, sid, ProjectPath, FromUnix(sec), "", "", "", NilMap) :
         sid \in {UUID2, ProcessID(1, 0)},
         sec \in {Cutoff(StartTime, MaxAge) - 1, Cutoff(StartTime, MaxAge) + 1} }

InitStartup ==
    /\ Parked
    /\ \E opened \in BOOLEAN, loaded \in BOOLEAN, db \in StoredTables, file \in LegacyFiles :
          probe = [ op |-> "startup", step |-> "start", opened |-> opened,
                    loaded |-> loaded, db |-> db, file |-> file,
                    kind |-> None, tbl |-> Empty ]

\* New: the SQLite store, the migration of what sessions.json holds and the two
\* cleanups; the JSON store with what Load has read when the SQLite store does
\* not open
NewDaemon ==
    /\ probe.op = "startup" /\ probe.step = "start"
    /\ LET jsonTbl == IF probe.loaded THEN probe.file ELSE Empty IN
       IF ~probe.opened
       THEN probe' = [probe EXCEPT !.step = "done", !.kind = "json", !.tbl = jsonTbl]
       ELSE LET migrated == IF probe.loaded THEN MigrateFromJSONStore(probe.db, jsonTbl)
                                            ELSE probe.db
                valid    == CleanupInvalidSessions(migrated)
            IN  probe' = [probe EXCEPT
                             !.step = "done", !.kind = "sqlite",
                             !.tbl = CleanupOldSessions(valid, MaxAge, StartTime)]
    /\ UNCHANGED rest

NextStartup == NewDaemon
SpecStartup == InitStartup /\ [][NextStartup]_vars

\* what was stored before the start: the rows of the SQLite store and, for the
\* tickets it has no row of, the records of a sessions.json that can be read
C19_Previously ==
    LET jsonTbl == IF probe.loaded THEN probe.file ELSE Empty IN
    IF ~probe.opened THEN jsonTbl
    ELSE [i \in DOMAIN probe.db \cup DOMAIN jsonTbl |->
             IF i \in DOMAIN probe.db THEN probe.db[i] ELSE MigratedRow(jsonTbl[i])]

\* record r of the store of the given kind has a canonical identifier and a
\* completion time within the window
C19_Keeps(kind, r) ==
    IF kind = "sqlite"
    THEN /\ isValidUUID(r.session_id)
         /\ r.completion_time >= Cutoff(StartTime, MaxAge)
    ELSE /\ isValidUUID(r.SessionID)
         /\ Unix(r.CompletionTime) >= Cutoff(StartTime, MaxAge)

\* C19: after the start the store holds exactly the records stored before whose
\* identifier is canonical and whose completion time is within the window, each
\* as it was.
C19_ExactlyValidRecent ==
    (probe.op = "startup" /\ probe.step = "done") =>
       probe.tbl = [i \in {j \in DOMAIN C19_Previously :
                              C19_Keeps(probe.kind, C19_Previously[j])}
                       |-> C19_Previously[i]]

-----------------------------------------------------------------------------
(* The end of a resume subprocess *)

\* what the agent may have written to its standard error
StderrTexts == {"", NoConversation, "Error: session not found", "API Error: 529"}

\* the wait goroutine of one resume subprocess, with the store it works on
InitResume ==
    /\ Parked
    /\ \E kind \in {"sqlite", "json"}, ctxDone \in BOOLEAN, code \in 0..2,
          signal \in {"", "killed", "terminated"}, stderr \in StderrTexts :
          /\ signal # "" => code = 0
          /\ probe = [ op |-> "resume", step |-> "running", kind |-> kind,
                       ctxDone |-> ctxDone, outcome |-> Outcome(code, signal, stderr),
                       tbl |-> StoreWith(kind, 1), labels |-> {ReviewLabel, OtherLabel} ]

\* cmd.Wait returns in the goroutine: RemoveSession when the error reads like a
\* lost session; no call of the tracker
WaitReturns ==
    /\ probe.op = "resume" /\ probe.step = "running"
    /\ probe' = [probe EXCEPT
                    !.step = "exited",
                    !.tbl = IF RemovesSession(probe.outcome, probe.ctxDone)
                            THEN Drop(probe.tbl, 1) ELSE probe.tbl]
    /\ UNCHANGED rest

NextResume == WaitReturns
SpecResume == InitResume /\ [][NextResume]_vars

\* the resume subprocess has failed and has said that the session does not exist
C20_SessionGone ==
    /\ probe.op = "resume" /\ probe.step = "exited"
    /\ ~probe.ctxDone
    /\ probe.outcome.signal = "" /\ probe.outcome.code # 0
    /\ \/ Contains(probe.outcome.stderr, "No conversation found")
       \/ Contains(probe.outcome.stderr, "not found")

\* C20: when a resume subprocess fails and the agent has reported that the session
\* no longer exists, the ticket's record is removed and its labels stay as they
\* were; after any other failure and after a cancellation the record stays.
C20_RemovedIffSessionGone ==
    (probe.op = "resume" /\ probe.step = "exited") =>
       /\ probe.labels = {ReviewLabel, OtherLabel}
       /\ C20_SessionGone <=> 1 \notin DOMAIN probe.tbl

-----------------------------------------------------------------------------
(* A scan whose list of tickets cannot be fetched *)

\* the step in which GetProjectIssues of a scan fails or times out, the context
\* not being cancelled
C21_FetchFails ==
    /\ pc \in {"newFetch", "reviewFetch"}
    /\ ~cancelled
    /\ pc' # pc
    /\ budget' = budget - 1

\* C21: a tracker error or a timeout while a scan fetches its list of tickets
\* makes that scan visit nothing and change nothing in the tracker, the Run table
\* and the session store; after the new-work scan the review scan is still run,
\* and after the review scan the loop waits for the next tick: it does not return.
C21_FailedFetchYieldsNothing ==
    [][ C21_FetchFails =>
           /\ scanList' = <<>>
           /\ UNCHANGED <<labels, discussions, procs, processes, tasks, sessions,
                          storeLock, resumeCmds, resumeProcesses, lastCommentTime,
                          processedIssues, cancelled>>
           /\ pc = "newFetch" => pc' = "reviewFetch"
           /\ pc = "reviewFetch" => pc' = "idle"
      ]_vars

\* the review scan visits its tickets in a tick whose new-work scan could not
\* fetch: the ticket has carried the trigger label since the start and no scan
\* has had it in its list
C21_ReviewScanAfterFailedFetch ==
    /\ pc = "reviewScan"
    /\ ~cancelled
    /\ cfg.runMode = "live"
    /\ labels[1] = {ClaudeLabel, OtherLabel}
    /\ processedIssues = {}
    /\ procs = <<>>
    /\ budget = MaxEvents - 1

-----------------------------------------------------------------------------
(* A panic in the completion goroutine *)

\* a call made by the goroutine that onCompletion starts panics. The goroutine
\* has no deferred function, so nothing recovers: the panic unwinds the
\* goroutine's whole stack and the Go runtime ends the program
TaskPanics(k) ==
    /\ Running
    /\ Pay(1)
    /\ k \in DOMAIN tasks /\ tasks[k].step \in {"comment", "getIssue", "update"}
    /\ pc' = "crashed"
    /\ UNCHANGED <<cfg, signals, now, trackerVars, cancelled, scanList, processedIssues,
                   handled, lastCommentTime, runVars, storeVars, resumeVars, probe>>

\* Daemon.Run with completion goroutines whose calls may panic
NextPanic == NextMemory \/ \E k \in RunIds : TaskPanics(k)

SpecPanic == InitMemory /\ [][NextPanic]_vars

\* C22: a panic raised in the asynchronous completion task of a Run is recovered
\* in that task: it never ends the daemon, whose loop keeps its place and goes
\* on to later ticks.
C22_PanicNeverEndsDaemon == pc # "crashed"

-----------------------------------------------------------------------------
(* The status of a Run *)

\* the changes of status RunProcess may make
C23_Moves ==
    { <<"starting", "running">>, <<"starting", "failed">>,
      <<"running", "completed">>, <<"running", "failed">> }

\* C23: a Run is created starting, and its status only goes from starting to
\* running or failed and from running to completed or failed; it becomes
\* completed only when the subprocess has exited with status zero (the callback
\* is told of a success), failed only when the subprocess did not start or did
\* not exit with zero (the callback is told of a failure), and a completed or
\* failed Run keeps its status.
C23_StatusLifecycle ==
    [][ /\ \A k \in DOMAIN procs' \ DOMAIN procs : procs'[k].Status = "starting"
        /\ \A k \in DOMAIN procs :
              procs'[k].Status # procs[k].Status =>
                 /\ <<procs[k].Status, procs'[k].Status>> \in C23_Moves
                 /\ procs'[k].Status \in {"completed", "failed"} =>
                       /\ k \notin DOMAIN tasks /\ k \in DOMAIN tasks'
                       /\ tasks'[k].success = (procs'[k].Status = "completed")
                 /\ procs'[k].Status = "completed" => procs[k].gpc = "scan"
      ]_vars

\* one Run has failed and a later Run has completed
C23_OneFailedOneCompleted ==
    /\ Len(procs) = 2
    /\ procs[1].Status = "failed"
    /\ procs[2].Status = "completed"

-----------------------------------------------------------------------------
(* A Run's place in the manager's table *)

\* Run k is in ProcessManager.processes
C24_InTable(k) ==
    /\ k \in DOMAIN procs
    /\ procs[k].ID \in DOMAIN processes
    /\ processes[procs[k].ID] = k

\* the same, in the state a step leads to
C24_InTableNext(k) ==
    /\ k \in DOMAIN procs'
    /\ procs'[k].ID \in DOMAIN processes'
    /\ processes'[procs'[k].ID] = k

\* the completion callback of Run k returns in this step: its goroutine exists
\* from now on
C24_CallbackReturns(k) == k \notin DOMAIN tasks /\ k \in DOMAIN tasks'

\* C24: a Run that the scheduler has put into the manager's table leaves the
\* table only in the step in which its completion callback returns (after the
\* subprocess has exited or has failed to start), not before; the removal does
\* not wait for the callback's goroutine and its tracker and store calls.
C24_NeverBeforeCallback ==
    [][ \A k \in RunIds : (C24_InTable(k) /\ ~C24_InTableNext(k)) => C24_CallbackReturns(k) ]_vars

-----------------------------------------------------------------------------
(* The scanner loop of RunProcess over the output of one subprocess *)

MaxLines == 3   \* lines of output a subprocess writes

\* the outputs of a subprocess: up to MaxLines lines
Outputs ==
    UNION { [1..n -> ScannedLines] : n \in 1..MaxLines }

\* a Run whose subprocess has started, with the output it is going to read
InitCapture ==
    /\ Parked
    /\ \E output \in Outputs :
          probe = [ op |-> "capture", output |-> output, read |-> 0,
                    ClaudeSessionID |-> "" ]

\* scanner.Scan() delivers the next line
ScanLine ==
    /\ probe.op = "capture"
    /\ probe.read < Len(probe.output)
    /\ probe' = [probe EXCEPT
                    !.read = @ + 1,
                    !.ClaudeSessionID =
                        CaptureSessionID(@, probe.output[probe.read + 1])]
    /\ UNCHANGED rest

NextCapture == ScanLine
SpecCapture == InitCapture /\ [][NextCapture]_vars

\* the identifier a line carries where the scanner loop looks for one
C25_Carried(line) ==
    IF line.json /\ line.session_id # "" THEN line.session_id ELSE Extracted[line]

\* C25: once the identifier of a Run's session has been captured from a line of
\* output, no later line of that Run changes it: the first match wins.
C25_FirstMatchWins ==
    [][ (probe.op = "capture" /\ probe.ClaudeSessionID # "") =>
           probe'.ClaudeSessionID = probe.ClaudeSessionID ]_vars

\* the first line has set the identifier, and a later line that carries another
\* identifier has been read
C25_OtherIdentifierRead ==
    /\ probe.op = "capture"
    /\ probe.read = 3
    /\ C25_Carried(probe.output[1]) = UUID1
    /\ C25_Carried(probe.output[3]) = UUID2
    /\ probe.ClaudeSessionID = UUID1

-----------------------------------------------------------------------------
(* The record of one ticket under the calls of the loop and of a completion   *)
(* goroutine                                                                *)

MaxCutoffTime == 5   \* the clock of the store's callers stops here, in ticks
MaxAdds       == 2   \* completions that store a record

\* the store of a daemon in memory mode: empty, or with the record of an
\* earlier execution; no call of the review scan under way
InitCutoff ==
    /\ Parked
    /\ \E kind \in {"sqlite", "json"} : \E tbl \in {Empty, StoreWith(kind, 1)} :
          probe = [ op |-> "cutoff", kind |-> kind, tbl |-> tbl, lock |-> "free",
                    clock |-> 0, adds |-> 0, scan |-> "idle", latest |-> NoTime ]

\* a store call can be made: the JSON store's lock is never given back by a writer
StoreFree == probe.kind = "json" => probe.lock = "free"

\* time passes
CutoffClock ==
    /\ probe.op = "cutoff"
    /\ probe.clock < MaxCutoffTime
    /\ probe' = [probe EXCEPT !.clock = @ + 1]
    /\ UNCHANGED rest

\* the goroutine of onCompletion stores the record of the Run that has succeeded:
\* AddCompletedSession(issue, ..., time.Now(), ...)
HandlerStores ==
    /\ probe.op = "cutoff"
    /\ probe.adds < MaxAdds
    /\ StoreFree
    /\ probe' = [probe EXCEPT
                    !.adds = @ + 1,
                    !.lock = IF probe.kind = "json" THEN "writer" ELSE @,
                    !.tbl  = IF probe.kind = "sqlite"
                             THEN SQLiteAdd(@, 1, UUID1, ProjectPath, probe.clock, RepoDir,
                                            ClaudeCommand, ClaudeFlags, NilMap)
                             ELSE JSONAdd(@, 1, UUID1, ProjectPath, probe.clock, RepoDir,
                                          ClaudeCommand, ClaudeFlags, NilMap)]
    /\ UNCHANGED rest

\* the review scan reads the record and fetches the comments after its cutoff;
\* the last of them was created at latest, after the cutoff and not after now
ScanReads(latest) ==
    /\ probe.op = "cutoff" /\ probe.scan = "idle"
    /\ StoreFree
    /\ 1 \in DOMAIN probe.tbl
    /\ latest > CutoffTime(GetCompletedSession(probe.kind, probe.tbl, 1))
    /\ latest <= probe.clock
    /\ probe' = [probe EXCEPT !.scan = "resuming", !.latest = latest]
    /\ UNCHANGED rest

\* the review scan, after the resume subprocess has been started:
\* UpdateLastCommentTime(issue, latest)
ScanUpdates ==
    /\ probe.op = "cutoff" /\ probe.scan = "resuming"
    /\ StoreFree
    /\ probe' = [probe EXCEPT
                    !.scan = "idle", !.latest = NoTime,
                    !.lock = IF probe.kind = "json" /\ 1 \in DOMAIN probe.tbl
                             THEN "writer" ELSE @,
                    !.tbl  = IF 1 \notin DOMAIN probe.tbl THEN @
                             ELSE IF probe.kind = "sqlite"
                             THEN SQLiteUpdate(@, 1, probe.latest)
                             ELSE JSONUpdate(@, 1, probe.latest)]
    /\ UNCHANGED rest

NextCutoff ==
    \/ CutoffClock
    \/ HandlerStores
    \/ \E latest \in 1..MaxCutoffTime : ScanReads(latest)
    \/ ScanUpdates

SpecCutoff == InitCutoff /\ [][NextCutoff]_vars

\* the later of two times
C26_Later(a, b) == IF a >= b THEN a ELSE b

\* C26: for every record the store's operations lead to, the cutoff the review
\* scan of memory mode uses is the later of the record's completion time and its
\* last-seen-comment time, and the completion time when none is stored.
C26_CutoffIsLaterTime ==
    (probe.op = "cutoff" /\ 1 \in DOMAIN probe.tbl) =>
       LET session == GetCompletedSession(probe.kind, probe.tbl, 1)
       IN  CutoffTime(session) =
              IF session.LastCommentTime = NoTime THEN session.CompletionTime
              ELSE C26_Later(session.CompletionTime, session.LastCommentTime)

-----------------------------------------------------------------------------
(* The review scan without memory: which tickets it claims *)

\* the step in which the memory-less review scan decides about the ticket at the
\* head of its list, in a live daemon and with no call failing
C27_Decides ==
    /\ pc = "reviewScan" /\ ~cfg.memory /\ cfg.runMode = "live"
    /\ ~cancelled
    /\ scanList # <<>> /\ Head(scanList).fetched
    /\ scanList' = Tail(scanList)
    /\ budget' = budget

\* the non-system notes of ticket i that no other is later than
C27_MostRecent(i) ==
    LET notes == AllNotes(discussions[i])
    IN  {notes[k] : k \in {j \in 1..Len(notes) : \A l \in 1..Len(notes) : notes[l].t <= notes[j].t}}

\* a note a person has written after the time the daemon has recorded for ticket i
C27_NewAndHuman(note, i) ==
    /\ note.author # cfg.svc
    /\ i \in DOMAIN lastCommentTime => note.t > lastCommentTime[i]

\* the step claims ticket i and registers a fresh Run for it
C27_Claims(i) ==
    /\ Started(i)
    /\ ProcessLabel \in labels'[i] /\ ReviewLabel \notin labels'[i]

\* C27: in memory-less mode a tick claims a ticket labelled for review and starts
\* a fresh Run for it if and only if the ticket's most recent non-system note is
\* written by a person and is strictly newer than the time the daemon has
\* recorded for the ticket; otherwise the tick changes neither the ticket's
\* labels nor the Run table nor the recorded time.
C27_ClaimsIffNewHumanNote ==
    [][ C27_Decides =>
           LET i == Head(scanList).iid
           IN  /\ C27_Claims(i) => \E note \in C27_MostRecent(i) : C27_NewAndHuman(note, i)
               /\ ( /\ C27_MostRecent(i) # {}
                    /\ \A note \in C27_MostRecent(i) : C27_NewAndHuman(note, i) )
                     => C27_Claims(i)
               /\ ~C27_Claims(i) => UNCHANGED <<labels, procs, processes, lastCommentTime>>
      ]_vars

-----------------------------------------------------------------------------
(* The goroutines of the daemon and the memory they share *)

\* an access of a goroutine to a shared variable: a read or a write, made while
\* holding ProcessManager.mu for reading ("shared"), for writing ("exclusive")
\* or without a lock ("none"; the Daemon has no mutex)
Access(variable, write, lock) ==
    [kind |-> "access", variable |-> variable, write |-> write, lock |-> lock, task |-> ""]

\* a go statement that starts the goroutine task
Go(task) ==
    [kind |-> "go", variable |-> "", write |-> FALSE, lock |-> "none", task |-> task]

Goroutines == {"loop", "supervisor", "handler", "waiter"}

\* what a goroutine does to the shared variables, in the order of its code.
\* loop: a tick that claims a ticket (the review scan without memory reads and
\* writes lastCommentTime; AddProcess; RunProcessAsync), in memory mode a resume
\* (d.resumeProcesses[...] = cmd; go ... cmd.Wait), the next tick, and the
\* shutdown branch (GetRunningProcesses, the loops over d.resumeProcesses).
\* supervisor: RunProcess (two writes of Status, the callback that starts the
\* handler) and the deferred RemoveProcess. handler: d.lastCommentTime[...] =
\* note.CreatedAt. waiter: delete(d.resumeProcesses, ...)
Program(task, memory) ==
    CASE task = "loop" ->
            IF memory
            THEN << Access("processes", TRUE, "exclusive"), Go("supervisor"),
                    Access("resumeProcesses", TRUE, "none"), Go("waiter"),
                    Access("processes", FALSE, "shared"), Access("Status", FALSE, "shared"),
                    Access("resumeProcesses", FALSE, "none") >>
            ELSE << Access("lastCommentTime", FALSE, "none"),
                    Access("lastCommentTime", TRUE, "none"),
                    Access("processes", TRUE, "exclusive"), Go("supervisor"),
                    Access("lastCommentTime", FALSE, "none"),
                    Access("processes", FALSE, "shared"), Access("Status", FALSE, "shared") >>
      [] task = "supervisor" ->
            << Access("Status", TRUE, "none"), Access("Status", TRUE, "none"),
               Go("handler"), Access("processes", TRUE, "exclusive") >>
      [] task = "handler" -> << Access("lastCommentTime", TRUE, "none") >>
      [] task = "waiter"  -> << Access("resumeProcesses", TRUE, "none") >>

\* the loop's goroutine at its first statement, no other goroutine yet
InitRace ==
    /\ Parked
    /\ \E memory \in BOOLEAN :
          probe = [ op |-> "race", memory |-> memory,
                    at |-> [t \in Goroutines |-> IF t = "loop" THEN 1 ELSE 0],
                    inside |-> [t \in Goroutines |-> FALSE] ]

\* the statement goroutine t is at; it has one
Active(t) == probe.at[t] \in 1..Len(Program(t, probe.memory))
Current(t) == Program(t, probe.memory)[probe.at[t]]

\* sync.RWMutex: a reader waits for a writer, a writer for everybody
MayLock(t) ==
    Current(t).lock # "none" =>
       \A u \in Goroutines \ {t} :
          (probe.inside[u] /\ Current(u).lock # "none") =>
             (Current(t).lock = "shared" /\ Current(u).lock = "shared")

\* goroutine t takes the lock of its access, if it has one, and starts the access
BeginAccess(t) ==
    /\ probe.op = "race"
    /\ Active(t) /\ Current(t).kind = "access" /\ ~probe.inside[t]
    /\ MayLock(t)
    /\ probe' = [probe EXCEPT !.inside[t] = TRUE]
    /\ UNCHANGED rest

\* the access is over and the lock given back
EndAccess(t) ==
    /\ probe.op = "race"
    /\ Active(t) /\ probe.inside[t]
    /\ probe' = [probe EXCEPT !.inside[t] = FALSE, !.at[t] = @ + 1]
    /\ UNCHANGED rest

\* goroutine t starts another goroutine
Spawn(t) ==
    /\ probe.op = "race"
    /\ Active(t) /\ Current(t).kind = "go"
    /\ probe' = [probe EXCEPT !.at[t] = @ + 1, !.at[Current(t).task] = 1]
    /\ UNCHANGED rest

NextRace ==
    \/ \E t \in Goroutines : BeginAccess(t)
    \/ \E t \in Goroutines : EndAccess(t)
    \/ \E t \in Goroutines : Spawn(t)

SpecRace == InitRace /\ [][NextRace]_vars

\* C28: the scheduler tick, a completion handler, a Run's supervising task and
\* a resume waiter never access the last-seen-comment map, the table of resume
\* subprocesses or a Run's status at the same time, one of them writing,
\* without holding a common lock.
C28_NoUnlockedConflict ==
    probe.op = "race" =>
       \A t, u \in Goroutines :
          ( /\ t # u
            /\ probe.inside[t] /\ probe.inside[u]
            /\ Current(t).variable = Current(u).variable
            /\ Current(t).variable \in {"lastCommentTime", "resumeProcesses", "Status"}
            /\ Current(t).write \/ Current(u).write )
             => (Current(t).lock # "none" /\ Current(u).lock # "none")

-----------------------------------------------------------------------------
(* The agent subprocesses of one ticket *)

\* the agent subprocesses of ticket i that are alive: the Runs whose subprocess
\* has started and has not exited, and the resume subprocesses not yet waited for
C29_LiveRuns(i) ==
    {k \in DOMAIN procs : procs[k].IssueNum = i /\ procs[k].Status = "running"}

C29_LiveResumes(i) ==
    {rid \in DOMAIN resumeCmds :
        resumeCmds[rid].issue = i /\ resumeCmds[rid].state = "running"}

\* C29: a resume subprocess of a ticket is never started while another resume
\* subprocess or a Run of the same ticket is alive: whenever a ticket has a live
\* resume subprocess it is the ticket's only live agent subprocess, also when
\* new notes of a person arrive on consecutive ticks.
C29_OneLiveAgentPerTicket ==
    \A i \in Issues :
       C29_LiveResumes(i) # {} =>
          Cardinality(C29_LiveResumes(i)) + Cardinality(C29_LiveRuns(i)) = 1

-----------------------------------------------------------------------------
(* A subprocess that cannot be prepared or started *)

\* the step writes the claim of ticket i and registers no Run for it:
\* CreateProcessWithCallbackAndGitlabDryRun has returned an error
C30_DescriptorFails(i) ==
    /\ pc \in {"newScan", "reviewScan"}
    /\ labels'[i] # labels[i]
    /\ ProcessLabel \in labels'[i]
    /\ ClaudeLabel \notin labels'[i] /\ ReviewLabel \notin labels'[i]
    /\ ~Started(i)

\* the subprocess of a Run of ticket i does not start
C30_StartFails(i) ==
    \E k \in DOMAIN procs :
       /\ procs[k].IssueNum = i
       /\ procs[k].Status = "starting" /\ procs'[k].Status = "failed"

\* after the step ticket i is in the error state, or a completion handler that
\* has been told of the failure is on its way to put it there
C30_GoesToError(i) ==
    \/ ErrorLabel \in labels'[i] /\ ProcessLabel \notin labels'[i]
    \/ \E k \in DOMAIN tasks' :
          /\ procs'[k].IssueNum = i
          /\ ~tasks'[k].success /\ tasks'[k].step \in {"getIssue", "update"}

\* C30: when the agent subprocess of a ticket that has just been claimed cannot
\* be prepared (the descriptor cannot be built) or cannot be started, the ticket
\* is relabelled to the error state and not left in progress.
C30_LaunchFailureGoesToError ==
    [][ \A i \in Issues :
           (C30_DescriptorFails(i) \/ C30_StartFails(i)) => C30_GoesToError(i) ]_vars

-----------------------------------------------------------------------------
(* GetIssueDiscussionsWithContext: the pages of a ticket's discussion threads *)

perPage      == 100   \* perPage := 100
MaxPages     == 50    \* if page > 50 { break }

\* the number of threads a page request may bring back: an empty page, a short
\* one, a full one, and one longer than asked for
PageLengths == {0, 1, perPage - 1, perPage, perPage + 1}

PastCeiling_OneMore(page) == page > MaxPages + 1

\* the safety check after page++
PastCeiling(page) == page > MaxPages

\* the call GetIssueDiscussionsWithContext(ctx, projectPath, issueIID) begins
InitPages ==
    /\ Parked
    /\ probe = [ op |-> "pages", page |-> 1, requests |-> 0, last |-> 0,
                 allDiscussions |-> 0, at |-> "loop" ]

\* one turn of the for loop: a page request, which fails or brings back a page
\* of n threads
RequestPage ==
    /\ probe.op = "pages" /\ probe.at = "loop"
    /\ \/ probe' = [probe EXCEPT !.requests = @ + 1, !.at = "error",
                                 !.allDiscussions = 0]
       \/ \E n \in PageLengths :
             probe' = [probe EXCEPT
                          !.requests = @ + 1,
                          !.last = n,
                          !.allDiscussions = @ + n,
                          !.page = IF n < perPage THEN @ ELSE @ + 1,
                          !.at = IF n < perPage \/ PastCeiling(probe.page + 1)
                                    THEN "returned" ELSE "loop"]
    /\ UNCHANGED rest

NextPages == RequestPage
SpecPages == InitPages /\ [][NextPages]_vars

\* C31: the fetch of a ticket's discussion threads makes at most 50 page
\* requests, even when every page comes back full, and it stops at the first
\* page that holds fewer entries than the page size.
C31_PagesBounded ==
    probe.op = "pages" =>
       /\ probe.requests <= 50
       /\ (probe.requests = 50 => probe.at # "loop")
       /\ (probe.requests > 0 /\ probe.last < 100 => probe.at # "loop")

\* every page came back full and the fetch has returned 5000 threads
C31_FiftyFullPages ==
    /\ probe.op = "pages" /\ probe.at = "returned"
    /\ probe.requests = 50 /\ probe.allDiscussions = 50 * 100

-----------------------------------------------------------------------------
(* The JSON session store's methods and its RWMutex *)

\* the methods of SessionStore that write the file, with their arguments
StoreCalls ==
    [ method : {"AddCompletedSession"}, issueIID : {1, 2},
      sessionID : {UUID1, ProcessID(1, 0)}, time : 0..MaxStoreTime ]
    \cup [ method : {"UpdateLastCommentTime"}, issueIID : {1, 2}, sessionID : {""},
           time : 0..MaxStoreTime ]
    \cup [ method : {"RemoveSession", "Save"}, issueIID : {1, 2}, sessionID : {""},
           time : {0} ]

\* a caller enters a method of the JSON store, whose map is empty or holds the
\* record of ticket 1
InitJSONStore ==
    /\ Parked
    /\ \E call \in StoreCalls, tbl \in {Empty, StoreWith("json", 1)} :
          probe = [ op |-> "json", call |-> call, tbl |-> tbl, mu |-> "free",
                    at |-> IF call.method = "Save" THEN "save" ELSE "entry",
                    err |-> FALSE ]

\* s.mu.Lock() at the head of AddCompletedSession, UpdateLastCommentTime and
\* RemoveSession
StoreLock ==
    /\ probe.op = "json" /\ probe.at = "entry"
    /\ probe.mu = "free"
    /\ probe' = [probe EXCEPT !.mu = "writer", !.at = "locked"]
    /\ UNCHANGED rest

\* the body of the method under the write lock, up to its call of s.Save();
\* UpdateLastCommentTime without a record returns an error instead, and the
\* deferred Unlock runs
StoreWrite ==
    /\ probe.op = "json" /\ probe.at = "locked"
    /\ LET c == probe.call IN
       CASE c.method = "AddCompletedSession" ->
              probe' = [probe EXCEPT
                          !.at = "save",
                          !.tbl = JSONAdd(@, c.issueIID, c.sessionID, ProjectPath, c.time,
                                          RepoDir, ClaudeCommand, ClaudeFlags, NilMap)]
         [] c.method = "UpdateLastCommentTime" ->
              IF c.issueIID \in DOMAIN probe.tbl
              THEN probe' = [probe EXCEPT !.at = "save",
                                          !.tbl = JSONUpdate(@, c.issueIID, c.time)]
              ELSE probe' = [probe EXCEPT !.at = "returned", !.mu = "free", !.err = TRUE]
         [] c.method = "RemoveSession" ->
              probe' = [probe EXCEPT !.at = "save", !.tbl = Drop(@, c.issueIID)]
    /\ UNCHANGED rest

\* s.mu.RLock() at the head of Save: sync.RWMutex gives no read lock while the
\* write lock is held, whoever holds it
SaveRLock ==
    /\ probe.op = "json" /\ probe.at = "save"
    /\ probe.mu # "writer"
    /\ probe' = [probe EXCEPT !.mu = "reader", !.at = "saving"]
    /\ UNCHANGED rest

\* Save writes the file and returns; the deferred RUnlock runs, and the deferred
\* Unlock of the method that called Save
SaveReturns ==
    /\ probe.op = "json" /\ probe.at = "saving"
    /\ \E written \in BOOLEAN :
          probe' = [probe EXCEPT !.mu = "free", !.at = "returned", !.err = ~written]
    /\ UNCHANGED rest

NextJSONStore == StoreLock \/ StoreWrite \/ SaveRLock \/ SaveReturns
SpecJSONStore == InitJSONStore /\ [][NextJSONStore]_vars /\ WF_vars(NextJSONStore)

\* C32: on the JSON store each of AddCompletedSession, UpdateLastCommentTime on
\* an existing record, and RemoveSession returns to its caller; none waits for
\* ever for the store's own lock.
C32_StoreCallReturns ==
    (/\ probe.op = "json"
     /\ probe.call.method \in {"AddCompletedSession", "UpdateLastCommentTime", "RemoveSession"})
       ~> (probe.at = "returned")

-----------------------------------------------------------------------------
(* The notes handed to resume subprocesses *)

\* the number of notes in the prompts of the first n resume subprocesses that
\* were started for ticket i
RECURSIVE C33_Delivered(_, _)
C33_Delivered(i, n) ==
    IF n = 0 THEN 0
    ELSE C33_Delivered(i, n - 1)
         + (IF resumeCmds[n].issue = i THEN Len(resumeCmds[n].Prompt) ELSE 0)

\* the notes of ticket i that are not system notes
C33_Written(i) == Len(AllNotes(discussions[i]))

\* C33: in memory mode, once a resume has been started for the new notes of a
\* ticket, no later tick takes any of those notes as new again: every note is
\* handed to at most one resume subprocess, so the prompts of a ticket's resume
\* subprocesses never hold more notes than were written on the ticket.
C33_NoNoteResumedTwice ==
    cfg.memory =>
       \A i \in Issues : C33_Delivered(i, Len(resumeCmds)) <= C33_Written(i)

-----------------------------------------------------------------------------
(* The label writes against a tracker that others write to as well *)

\* the step is the label write of a completion handler for ticket i
C34_HandlerWrites(i, success) ==
    \E k \in DOMAIN tasks :
       /\ procs[k].IssueNum = i
       /\ tasks[k].step = "update" /\ tasks[k].success = success
       /\ tasks'[k].step # "update"
       /\ labels'[i] # labels[i]

\* the step is the label write of a scan's claim of ticket i
C34_ClaimWrites(i) ==
    /\ pc \in {"newScan", "reviewScan"}
    /\ scanList # <<>> /\ Head(scanList).iid = i
    /\ scanList' # scanList
    /\ labels'[i] # labels[i]

\* C34: every label write of the daemon (claim, success, failure) differs from
\* the tracker's labels at the moment of the write only by the workflow labels
\* the transition removes or adds; a label an external actor has added since the
\* daemon read the labels is still there after the write.
C34_WritesKeepForeignLabels ==
    [][ \A i \in Issues :
          /\ C34_ClaimWrites(i) =>
                labels'[i] = (labels[i] \ {ClaudeLabel, ReviewLabel}) \cup {ProcessLabel}
          /\ C34_HandlerWrites(i, TRUE) =>
                labels'[i] = (labels[i] \ {ProcessLabel}) \cup {ReviewLabel}
          /\ C34_HandlerWrites(i, FALSE) =>
                labels'[i] = (labels[i] \ {ProcessLabel}) \cup {ErrorLabel} ]_vars

-----------------------------------------------------------------------------
(* The last-seen-comment time of a record and the resumes that were started *)

\* the step moves the last-seen-comment time of the record of ticket i
C35_Advances(i) ==
    /\ i \in DOMAIN sessions /\ i \in DOMAIN sessions'
    /\ GetCompletedSession(cfg.store, sessions', i).LastCommentTime # NoTime
    /\ GetCompletedSession(cfg.store, sessions', i).LastCommentTime
          # GetCompletedSession(cfg.store, sessions, i).LastCommentTime

\* the step starts a resume subprocess for ticket i
C35_ResumeStarts(i) ==
    /\ Len(resumeCmds') = Len(resumeCmds) + 1
    /\ resumeCmds'[Len(resumeCmds')].issue = i

\* C35: in memory mode (outside the dry-run modes) the last-seen-comment time
\* of a record advances only in a step that has started a resume subprocess for
\* the ticket; when the resume is skipped because the stored identifier is not a
\* canonical token, the record is left as it was and the new notes remain new.
C35_AdvancesOnlyWithResume ==
    [][ \A i \in Issues :
           (cfg.memory /\ cfg.runMode = "live" /\ C35_Advances(i)) => C35_ResumeStarts(i) ]_vars

-----------------------------------------------------------------------------
(* The table of resume subprocesses *)

\* the resume subprocess rid is the one d.resumeProcesses holds for its ticket
C36_Tracked(rid) ==
    /\ resumeCmds[rid].issue \in DOMAIN resumeProcesses
    /\ resumeProcesses[resumeCmds[rid].issue] = rid

\* C36: at every instant every live resume subprocess is in the daemon's table
\* of resume subprocesses under its ticket number (an entry leaves the table
\* only when the subprocess it refers to has exited), so that shutdown can
\* signal every live resume subprocess.
C36_LiveResumesAreTracked ==
    \A rid \in DOMAIN resumeCmds :
       resumeCmds[rid].state = "running" => C36_Tracked(rid)

-----------------------------------------------------------------------------
(* RunProcess: one Run from StdoutPipe to the completion callback *)

\* the ways a Run may end: StdoutPipe fails, Start fails, the subprocess exits
\* with status 0 or 1, or a signal ends it
Endings == {"pipe", "start", "exit 0", "exit 1", "signal"}

WaitSucceeds_Always(ending) == ending \in Endings

\* process.Cmd.Wait() returns nil
WaitSucceeds(ending) == ending = "exit 0"

\* RunProcess(process) is called for a Run with OnCompletion set, whose
\* subprocess is going to write at most one line
InitRun ==
    /\ Parked
    /\ \E ending \in Endings, output \in {<<>>} \cup {<<line>> : line \in ScannedLines} :
          probe = [ op |-> "run", ending |-> ending, output |-> output, read |-> 0,
                    at |-> "pipe", Status |-> "starting", ClaudeSessionID |-> "",
                    calls |-> <<>> ]

\* process.Cmd.StdoutPipe(), and on its failure the callback and the return
StdoutPipe ==
    /\ probe.op = "run" /\ probe.at = "pipe"
    /\ probe' = IF probe.ending = "pipe"
                THEN [probe EXCEPT !.Status = "failed", !.at = "returned",
                                   !.calls = Append(@, FALSE)]
                ELSE [probe EXCEPT !.at = "start"]
    /\ UNCHANGED rest

\* process.Cmd.Start(), and on its failure the callback and the return
CmdStart ==
    /\ probe.op = "run" /\ probe.at = "start"
    /\ probe' = IF probe.ending = "start"
                THEN [probe EXCEPT !.Status = "failed", !.at = "returned",
                                   !.calls = Append(@, FALSE)]
                ELSE [probe EXCEPT !.Status = "running", !.at = "scan"]
    /\ UNCHANGED rest

\* one turn of the scanner loop
RunScans ==
    /\ probe.op = "run" /\ probe.at = "scan"
    /\ probe.read < Len(probe.output)
    /\ probe' = [probe EXCEPT
                    !.read = @ + 1,
                    !.ClaudeSessionID =
                        CaptureSessionID(@, probe.output[probe.read + 1])]
    /\ UNCHANGED rest

\* the output is at its end: process.Cmd.Wait(), the final status, the callback
\* with the outcome, and the return
CmdWait ==
    /\ probe.op = "run" /\ probe.at = "scan"
    /\ probe.read = Len(probe.output)
    /\ LET success == WaitSucceeds(probe.ending) IN
       probe' = [probe EXCEPT
                    !.Status = IF success THEN "completed" ELSE "failed",
                    !.at = "returned",
                    !.calls = Append(@, success)]
    /\ UNCHANGED rest

NextRun == StdoutPipe \/ CmdStart \/ RunScans \/ CmdWait
SpecRun == InitRun /\ [][NextRun]_vars

\* C37: for every Run given to RunProcess with a completion callback, the
\* callback is called exactly once, however the Run ends (pipe creation
\* failure, start failure, zero exit, non-zero exit), and its success argument
\* is true exactly on a zero exit.
C37_CallbackExactlyOnce ==
    probe.op = "run" =>
       /\ Len(probe.calls) <= 1
       /\ probe.at = "returned" =>
             /\ Len(probe.calls) = 1
             /\ probe.calls[1] = (probe.ending = "exit 0")

\* a Run that wrote a line and exited with status 1 has had its callback called
\* with false
C37_FailedRunReported ==
    /\ probe.op = "run" /\ probe.at = "returned"
    /\ probe.ending = "exit 1" /\ probe.read = 1
    /\ probe.calls = <<FALSE>>

-----------------------------------------------------------------------------
(* The completion comment and the review scan without memory *)

MaxReviewTicks == 2   \* ticks of the review scan after a completion

\* accounts the daemon's token may belong to: one that reads like a bot, a
\* person's own account, and a technical account with a neutral name
ServiceAccounts ==
    { ServiceAccount, Alice, [name |-> "Dev", username |-> "automation"] }

\* a Run of the ticket has succeeded: the notes written before, the entry of
\* d.lastCommentTime (none for a Run the new-work scan started), and the time
InitSeed ==
    /\ Parked
    /\ \E svc \in ServiceAccounts,
          threads \in {<<>>} \cup {<<<<Note(Alice, FALSE, t)>>>> : t \in 0..1},
          seen \in BOOLEAN, last \in 0..1, clock \in 1..2 :
          /\ ~seen => last = 0
          /\ probe = [ op |-> "seed", svc |-> svc, threads |-> threads,
                       seen |-> seen, last |-> last, clock |-> clock,
                       at |-> "comment", posted |-> FALSE, restarted |-> FALSE,
                       ticks |-> 0, spawned |-> FALSE ]

\* onCompletion, success: CreateIssueNote, and d.lastCommentTime set to the
\* note's creation time when the call succeeds
PostCompletionComment ==
    /\ probe.op = "seed" /\ probe.at = "comment"
    /\ \E ok \in BOOLEAN :
          probe' = IF ok
                   THEN [probe EXCEPT
                           !.threads = Append(@, <<Note(probe.svc, FALSE, probe.clock)>>),
                           !.seen = TRUE, !.last = probe.clock,
                           !.posted = TRUE, !.at = "relabel"]
                   ELSE [probe EXCEPT !.at = "relabel"]
    /\ UNCHANGED rest

\* onCompletion, success: the sleep, GetIssue and UpdateIssueLabels; the ticket
\* is in review when both calls succeed
HandlerRelabels ==
    /\ probe.op = "seed" /\ probe.at = "relabel"
    /\ \E ok \in BOOLEAN :
          probe' = [probe EXCEPT !.at = IF ok THEN "review" ELSE "left",
                                 !.clock = @ + 1]
    /\ UNCHANGED rest

\* the daemon is stopped and started again: New makes an empty lastCommentTime
DaemonRestarts ==
    /\ probe.op = "seed" /\ probe.at = "review"
    /\ ~probe.restarted
    /\ probe' = [probe EXCEPT !.seen = FALSE, !.last = 0, !.restarted = TRUE]
    /\ UNCHANGED rest

\* checkForHumanReviewIssuesWithContext for the ticket, with no note added
\* since the completion comment: the sorted fetch, the classification of the
\* last comment, and the claim
ReviewTick ==
    /\ probe.op = "seed" /\ probe.at = "review"
    /\ probe.ticks < MaxReviewTicks
    /\ \E comments \in SortedNotes(AllNotes(probe.threads)) :
          IF comments = <<>>
          THEN probe' = [probe EXCEPT !.ticks = @ + 1]
          ELSE LET last == comments[Len(comments)] IN
               IF /\ ~IsBotComment(last.author, probe.svc.username)
                  /\ IsNewerComment(probe.seen, probe.last, last.t)
               THEN probe' = [probe EXCEPT !.seen = TRUE, !.last = last.t,
                                           !.spawned = TRUE, !.at = "claimed"]
               ELSE probe' = [probe EXCEPT !.ticks = @ + 1]
    /\ UNCHANGED rest

NextSeed == PostCompletionComment \/ HandlerRelabels \/ DaemonRestarts \/ ReviewTick
SpecSeed == InitSeed /\ [][NextSeed]_vars

\* C38: in memory-less mode the completion comment the daemon posts when a Run
\* succeeds never causes a new Run: once the handler has finished and the
\* ticket is in review, no tick spawns anything for the ticket while no further
\* note has been added, whatever the name and handle of the service account.
C38_CompletionCommentSpawnsNothing ==
    (probe.op = "seed" /\ probe.posted) => ~probe.spawned

-----------------------------------------------------------------------------
(* The shape of the identifier a Run stores *)

\* C39: the identifier stored on a Run while its output is read is always
\* absent or a canonical token (8-4-4-4-12 lowercase hexadecimal), whichever
\* part of a line it was taken from: the session_id member, the content, delta
\* or result member, or a line of plain text.
C39_StoredIdentifierIsCanonical ==
    probe.op = "capture" =>
       (probe.ClaudeSessionID = "" \/ isValidUUID(probe.ClaudeSessionID))

-----------------------------------------------------------------------------
(* The dry-run modes *)

\* a daemon started in one of the dry-run modes over a ticket that an earlier
\* execution has left in review, with the record of that execution in memory
\* mode
InitDry ==
    /\ cfg \in Configs /\ cfg.runMode \in {"dry", "semi"}
    /\ Quiet
    /\ labels = [i \in Issues |-> {ReviewLabel, OtherLabel}]
    /\ sessions = IF cfg.memory THEN StoreWith(cfg.store, 1) ELSE Empty
    /\ probe = NoProbe
    /\ budget = MaxEvents

NextDry ==
    \/ LoopStep
    \/ Advance
    \/ Interrupt
    \/ \E i \in Issues : ExtAddTrigger(i)
    \/ \E i \in Issues, note \in ExternalNotes(now), thread \in 0..MaxEvents :
          ExtAddNote(i, note, thread)

SpecDry == InitDry /\ [][NextDry]_vars

\* C40: in the dry-run and semi-dry-run modes no step of the daemon changes the
\* session store or the map of last-reacted-comment times, so that a note
\* reported as "would resume" or "would process" in one tick is still new in
\* the next.
C40_DryRunKeepsCutoffs ==
    [][ cfg.runMode \in {"dry", "semi"} =>
           /\ sessions' = sessions
           /\ lastCommentTime' = lastCommentTime ]_vars

=============================================================================
